---- MODULE Spec2Model ----
(***************************************************************************)
(* Verification model of the MISL 100BaseT switch firmware.                *)
(*                                                                         *)
(* The firmware is modelled one subsystem at a time; every subsystem has   *)
(* its own specification over the shared variables:                        *)
(*   SpecHAL   - the SPI hardware abstraction layer and its two tokens     *)
(*   SpecCLI   - console login and the command dispatcher                  *)
(*   SpecLog   - the event logger and its ring of records in the EEPROM    *)
(*   SpecEEPROM - the bytes the EEPROM operations store and return         *)
(*   SpecWrite - EEPROMSingleWrite, its verification and its event codes   *)
(*   SpecStore - the VLAN table, save-running-config and the boot restore  *)
(*   SpecBoot  - the flags byte: erase and delete requests, saves, boots   *)
(*   SpecI2C   - the I2C interrupt handler and the I2C manager task         *)
(*   SpecPort  - the port monitor task and the console attach interrupt     *)
(*   SpecBits  - the handlers that set or clear a bit of a register        *)
(*   SpecQueues - the queues filled by the I2C and DTR interrupt handlers  *)
(*   SpecUsers - the user table: add, delete menu, save and boot           *)
(*   SpecSession - the interpreter's loop beside the DTR interrupt         *)
(*   SpecRmw   - read-modify-write of a register beside the port monitor   *)
(*   FairSpecHAL - SpecHAL with every task's HAL operation scheduled fairly*)
(*   SpecIoErr - the raw EEPROM write of the console and its result        *)
(*   SpecDelUser - a console session: add, delete, save, logout, login     *)
(*   SpecVlan  - the VLAN entries typed at the console                     *)
(*   SpecLogRec - the record the logger writes for an event                *)
(*   SpecUart  - the console output of the interpreter and the monitor     *)
(*   SpecSlot  - LogStatusFlags and NextLogSlot and the code that uses them*)
(***************************************************************************)
EXTENDS Integers, Sequences, FiniteSets, TLC

VARIABLES
    g_pSPI0Semaphore,   \* holder of the EEPROM channel token, or "free"
    g_pSPI1Semaphore,   \* holder of the switch-controller token, or "free"
    halStack,           \* per task: stack of HAL call frames, innermost last
    halRet,             \* per task: value returned by the last HAL call
    Authenticated,      \* a console user is logged in
    ActiveUser,         \* copy of the user record that logged in last
    users,              \* the user table, slots 0..15
    cliPc,              \* where InterpreterTask is in its loop
    commandwords,       \* the words of the console line being dispatched
    cliOut,             \* what the dispatcher did with that line
    g_pLoggerQueue,     \* event codes waiting for the logger task
    LogStatusFlags,     \* 32-bit mask of the event codes that are logged
    NextLogSlot,        \* EEPROM address of the next log record
    last_code_issued,   \* LoggerTask's local: {the code it logged last}, {} before
    logResident,        \* EEPROM addresses at which a log record starts
    logWrites,          \* number of log records written so far
    eeprom,             \* EEPROM array: programmed address -> byte on the device
    ethoRegs,           \* the 256 registers of the switch controller
    vlanTable,          \* VLAN table of the controller: row -> seven bytes
    storeOut,           \* the last storage operation, its operands and result
    savedImage,         \* history: the configuration the last save captured
    storeOps,           \* number of configuration commands and boots so far
    i2cData,            \* I2C0SlaveIntHandler's static packet
    g_pI2CQueue,        \* packets waiting for I2CManagerTask
    g_pI2CSemaphore,    \* the I2C bus token: its count and the task holding it
    i2cPc,              \* where I2CManagerTask is in its loop
    i2cTask,            \* I2CManagerTask's locals
    i2cWire,            \* what the dispatcher did for the packet it holds, in order
    i2cTxn,             \* history: the master's transaction and the packets it caused
    i2cHalt,            \* "no", or why the firmware stopped
    i2cIrqs,            \* number of I2C interrupts served so far
    pmPc,               \* where PortMonitorTask is: its step and the block it is in
    pmFlags,            \* PortMonitorTask's local flags
    eth0_reg_settings,  \* PortMonitorTask's local eth0_reg_settings
    pmOps,              \* history: what the task did since it last read the interrupts
    macStale,           \* history: blocks whose link changed since the last flush
    linkChanges,        \* number of link changes so far
    ConsoleMode,        \* the attached host is a terminal, not the Windows application
    g_pLEDQueue,        \* requests waiting for the LED task
    dtrHandler,         \* the interrupt handler registered for the DTR pin
    dtrEdges,           \* number of DTR edges so far
    bitCall             \* the bit handler in progress: its operands, polls and result

halVars == <<g_pSPI0Semaphore, g_pSPI1Semaphore, halStack, halRet>>

cliVars == <<Authenticated, ActiveUser, users, cliPc, commandwords, cliOut>>

logVars == <<g_pLoggerQueue, LogStatusFlags, NextLogSlot, last_code_issued, logResident, logWrites>>

storeVars == <<eeprom, ethoRegs, vlanTable, storeOut, savedImage, storeOps>>

i2cVars == <<i2cData, g_pI2CQueue, g_pI2CSemaphore, i2cPc, i2cTask, i2cWire, i2cTxn, i2cHalt, i2cIrqs>>

pmVars == <<pmPc, pmFlags, eth0_reg_settings, pmOps, macStale, linkChanges, ConsoleMode, g_pLEDQueue, dtrHandler, dtrEdges>>

bitVars == <<bitCall>>

vars == <<halVars, cliVars, logVars, storeVars, i2cVars, pmVars, bitVars>>

nonHalVars == <<cliVars, logVars, storeVars, i2cVars, pmVars, bitVars>>

nonCliVars == <<halVars, logVars, storeVars, i2cVars, pmVars, bitVars>>

nonLogVars == <<halVars, cliVars, storeVars, i2cVars, pmVars, bitVars>>

\* what no storage operation touches
storeFrame == <<halVars, i2cVars, pmVars, bitVars, Authenticated, ActiveUser, cliPc, commandwords, cliOut, g_pLoggerQueue, last_code_issued, logResident, logWrites>>

\* what no I2C operation touches
i2cFrame == <<halVars, cliVars, logVars, pmVars, bitVars, eeprom, storeOut, storeOps>>

\* what neither the port monitor nor the console attach interrupt touches
pmFrame == <<halVars, logVars, i2cVars, bitVars, ActiveUser, users, cliPc, commandwords, cliOut, eeprom, storeOut, savedImage, storeOps>>

(***************************************************************************)
(* Tasks that call the HAL, and their scheduling priorities.               *)
(***************************************************************************)
Tasks == {"Interpreter", "I2CManager", "PortMonitor", "Logger"}

Priority ==
    [t \in Tasks |->
        CASE t = "Interpreter" -> 2
          [] t = "I2CManager"  -> 2
          [] t = "PortMonitor" -> 1
          [] t = "Logger"      -> 1]

\* first address beyond the 17-bit EEPROM array
EEPROM_SIZE == 131072

\* last register address of the 8-bit switch controller
ETHO_MAX_ADDR == 255

\* bounds of the HAL inputs explored
MaxBulkLen == 2

BulkOps == {"EEPROMBulkWrite", "EEPROMBulkRead", "EthoControllerBulkRead"}

\* start addresses explored: one for the single-byte operations, and for the
\* bulk operations the last address of each device and the first beyond it
HalAddrs(fn) ==
    CASE fn = "EthoControllerBulkRead" -> {ETHO_MAX_ADDR - 1}
      [] fn \in {"EEPROMBulkWrite", "EEPROMBulkRead"} ->
             {EEPROM_SIZE - 1, EEPROM_SIZE}
      [] fn \in {"EEPROMSingleWrite", "EEPROMSingleRead"} -> {768}
      [] OTHER -> {114}

EEPROMOps == {"EEPROMSingleWrite", "EEPROMSingleRead",
              "EEPROMBulkWrite", "EEPROMBulkRead"}

EthoOps == {"EthoControllerSingleRead", "EthoControllerSingleWrite",
            "EthoControllerBulkRead"}

\* the HAL operations each task's code calls
ClientOps ==
    [t \in Tasks |->
        CASE t = "Interpreter" -> EEPROMOps \cup EthoOps
          [] t = "I2CManager"  -> {"EthoControllerSingleRead",
                                   "EthoControllerSingleWrite"}
          [] t = "PortMonitor" -> {"EthoControllerSingleRead",
                                   "EthoControllerSingleWrite"}
          [] t = "Logger"      -> {"EEPROMSingleWrite"}]

(***************************************************************************)
(* FreeRTOS mutex calls as the HAL uses them: a take with a zero timeout   *)
(* whose result is never looked at, and a give that frees the mutex        *)
(* whoever calls it.                                                       *)
(***************************************************************************)
xSemaphoreTake(sem, t) == IF sem = "free" THEN t ELSE sem

xSemaphoreGive(sem) == "free"

Frame(fn, addr, len) ==
    [fn |-> fn, pc |-> "take", addr |-> addr, len |-> len, pos |-> 0]

Top(t) == halStack[t][Len(halStack[t])]

Active(t) == halStack[t] # <<>>

\* A task runs only while no task of higher priority is in the middle of a
\* HAL call (the HAL only busy-waits); equal priorities are time-sliced.
CanRun(t) == \A u \in Tasks \ {t} : Active(u) => Priority[u] <= Priority[t]

Running(t, fn) == Active(t) /\ CanRun(t) /\ Top(t).fn = fn

SetTop(t, f) == [halStack EXCEPT ![t] = [@ EXCEPT ![Len(@)] = f]]

Pop(t) == [halStack EXCEPT ![t] = SubSeq(@, 1, Len(@) - 1)]

Return(t, v) ==
    /\ halStack' = Pop(t)
    /\ halRet' = [halRet EXCEPT ![t] = v]

\* a task's code calls a HAL operation
HalCall(t) ==
    /\ ~Active(t)
    /\ CanRun(t)
    /\ \E fn \in ClientOps[t] :
         \E addr \in HalAddrs(fn) :
           \E len \in (IF fn \in BulkOps THEN 1..MaxBulkLen ELSE {1}) :
             halStack' = [halStack EXCEPT ![t] = <<Frame(fn, addr, len)>>]
    /\ UNCHANGED <<g_pSPI0Semaphore, g_pSPI1Semaphore, halRet>>
    /\ UNCHANGED nonHalVars

EEPROMSingleWrite(t) ==
    /\ Running(t, "EEPROMSingleWrite")
    /\ \/ /\ Top(t).pc = "take"
          /\ g_pSPI0Semaphore' = xSemaphoreTake(g_pSPI0Semaphore, t)
          /\ halStack' = SetTop(t, [Top(t) EXCEPT !.pc = "xfer"])
          /\ UNCHANGED <<g_pSPI1Semaphore, halRet>>
       \/ /\ Top(t).pc = "xfer"
          \* the byte is written and read back (the device may fail); both
          \* outcomes give the token back and return
          /\ g_pSPI0Semaphore' = xSemaphoreGive(g_pSPI0Semaphore)
          /\ \E ok \in BOOLEAN : Return(t, ok)
          /\ UNCHANGED g_pSPI1Semaphore
    /\ UNCHANGED nonHalVars

EEPROMSingleRead(t) ==
    /\ Running(t, "EEPROMSingleRead")
    /\ \/ /\ Top(t).pc = "take"
          /\ g_pSPI0Semaphore' = xSemaphoreTake(g_pSPI0Semaphore, t)
          /\ halStack' = SetTop(t, [Top(t) EXCEPT !.pc = "xfer"])
          /\ UNCHANGED <<g_pSPI1Semaphore, halRet>>
       \/ /\ Top(t).pc = "xfer"
          /\ g_pSPI0Semaphore' = xSemaphoreGive(g_pSPI0Semaphore)
          /\ Return(t, TRUE)
          /\ UNCHANGED g_pSPI1Semaphore
    /\ UNCHANGED nonHalVars

EEPROMBulkWrite(t) ==
    /\ Running(t, "EEPROMBulkWrite")
    /\ \/ /\ Top(t).pc = "take"
          /\ g_pSPI0Semaphore' = xSemaphoreTake(g_pSPI0Semaphore, t)
          /\ halStack' = SetTop(t, [Top(t) EXCEPT !.pc = "check"])
          /\ UNCHANGED <<g_pSPI1Semaphore, halRet>>
       \/ /\ Top(t).pc = "check"
          /\ IF Top(t).addr >= EEPROM_SIZE
             THEN Return(t, FALSE)
             ELSE /\ halStack' = SetTop(t, [Top(t) EXCEPT !.pc = "loop"])
                  /\ UNCHANGED halRet
          /\ UNCHANGED <<g_pSPI0Semaphore, g_pSPI1Semaphore>>
       \/ /\ Top(t).pc = "loop"
          /\ Top(t).pos < Top(t).len
          /\ Top(t).addr >= EEPROM_SIZE
          /\ g_pSPI0Semaphore' = xSemaphoreGive(g_pSPI0Semaphore)
          /\ Return(t, FALSE)
          /\ UNCHANGED g_pSPI1Semaphore
       \/ /\ Top(t).pc = "loop"
          /\ Top(t).pos < Top(t).len
          /\ Top(t).addr < EEPROM_SIZE
          /\ halStack' = [halStack EXCEPT ![t] =
                 Append([@ EXCEPT ![Len(@)] = [Top(t) EXCEPT !.pc = "called"]],
                        Frame("EEPROMSingleWrite", Top(t).addr, 1))]
          /\ UNCHANGED <<g_pSPI0Semaphore, g_pSPI1Semaphore, halRet>>
       \/ /\ Top(t).pc = "called"
          /\ halRet[t] = FALSE
          /\ g_pSPI0Semaphore' = xSemaphoreGive(g_pSPI0Semaphore)
          /\ halStack' = SetTop(t, [Top(t) EXCEPT !.pc = "hang"])
          /\ UNCHANGED <<g_pSPI1Semaphore, halRet>>
       \/ /\ Top(t).pc = "called"
          /\ halRet[t] = TRUE
          /\ halStack' = SetTop(t, [Top(t) EXCEPT !.pc = "loop",
                                        !.addr = @ + 1, !.pos = @ + 1])
          /\ UNCHANGED <<g_pSPI0Semaphore, g_pSPI1Semaphore, halRet>>
       \/ /\ Top(t).pc = "loop"
          /\ Top(t).pos >= Top(t).len
          /\ g_pSPI0Semaphore' = xSemaphoreGive(g_pSPI0Semaphore)
          /\ Return(t, TRUE)
          /\ UNCHANGED g_pSPI1Semaphore
    /\ UNCHANGED nonHalVars

EEPROMBulkRead(t) ==
    /\ Running(t, "EEPROMBulkRead")
    /\ \/ /\ Top(t).pc = "take"
          /\ g_pSPI0Semaphore' = xSemaphoreTake(g_pSPI0Semaphore, t)
          /\ halStack' = SetTop(t, [Top(t) EXCEPT !.pc = "check"])
          /\ UNCHANGED <<g_pSPI1Semaphore, halRet>>
       \/ /\ Top(t).pc = "check"
          /\ IF Top(t).addr >= EEPROM_SIZE
             THEN /\ g_pSPI0Semaphore' = xSemaphoreGive(g_pSPI0Semaphore)
                  /\ Return(t, FALSE)
             ELSE /\ halStack' = SetTop(t, [Top(t) EXCEPT !.pc = "loop"])
                  /\ UNCHANGED <<g_pSPI0Semaphore, halRet>>
          /\ UNCHANGED g_pSPI1Semaphore
       \/ /\ Top(t).pc = "loop"
          /\ Top(t).pos < Top(t).len
          /\ Top(t).addr >= EEPROM_SIZE
          /\ g_pSPI0Semaphore' = xSemaphoreGive(g_pSPI0Semaphore)
          /\ Return(t, FALSE)
          /\ UNCHANGED g_pSPI1Semaphore
       \/ /\ Top(t).pc = "loop"
          /\ Top(t).pos < Top(t).len
          /\ Top(t).addr < EEPROM_SIZE
          /\ halStack' = [halStack EXCEPT ![t] =
                 Append([@ EXCEPT ![Len(@)] = [Top(t) EXCEPT !.pc = "called"]],
                        Frame("EEPROMSingleRead", Top(t).addr, 1))]
          /\ UNCHANGED <<g_pSPI0Semaphore, g_pSPI1Semaphore, halRet>>
       \/ /\ Top(t).pc = "called"
          /\ halStack' = SetTop(t, [Top(t) EXCEPT !.pc = "loop",
                                        !.addr = @ + 1, !.pos = @ + 1])
          /\ UNCHANGED <<g_pSPI0Semaphore, g_pSPI1Semaphore, halRet>>
       \/ /\ Top(t).pc = "loop"
          /\ Top(t).pos >= Top(t).len
          /\ g_pSPI0Semaphore' = xSemaphoreGive(g_pSPI0Semaphore)
          /\ Return(t, TRUE)
          /\ UNCHANGED g_pSPI1Semaphore
    /\ UNCHANGED nonHalVars

EthoControllerSingleRead(t) ==
    /\ Running(t, "EthoControllerSingleRead")
    /\ \/ /\ Top(t).pc = "take"
          /\ g_pSPI1Semaphore' = xSemaphoreTake(g_pSPI1Semaphore, t)
          /\ halStack' = SetTop(t, [Top(t) EXCEPT !.pc = "xfer"])
          /\ UNCHANGED <<g_pSPI0Semaphore, halRet>>
       \/ /\ Top(t).pc = "xfer"
          /\ g_pSPI1Semaphore' = xSemaphoreGive(g_pSPI1Semaphore)
          /\ Return(t, TRUE)
          /\ UNCHANGED g_pSPI0Semaphore
    /\ UNCHANGED nonHalVars

EthoControllerBulkRead(t) ==
    /\ Running(t, "EthoControllerBulkRead")
    /\ \/ /\ Top(t).pc = "take"
          /\ g_pSPI1Semaphore' = xSemaphoreTake(g_pSPI1Semaphore, t)
          /\ halStack' = SetTop(t, [Top(t) EXCEPT !.pc = "check"])
          /\ UNCHANGED <<g_pSPI0Semaphore, halRet>>
       \/ /\ Top(t).pc = "check"
          /\ IF Top(t).addr + Top(t).len > ETHO_MAX_ADDR
             THEN Return(t, FALSE)
             ELSE /\ halStack' = SetTop(t, [Top(t) EXCEPT !.pc = "xfer"])
                  /\ UNCHANGED halRet
          /\ UNCHANGED <<g_pSPI0Semaphore, g_pSPI1Semaphore>>
       \/ /\ Top(t).pc = "xfer"
          /\ Top(t).pos < Top(t).len
          /\ halStack' = SetTop(t, [Top(t) EXCEPT !.pos = @ + 1])
          /\ UNCHANGED <<g_pSPI0Semaphore, g_pSPI1Semaphore, halRet>>
       \/ /\ Top(t).pc = "xfer"
          /\ Top(t).pos >= Top(t).len
          /\ g_pSPI1Semaphore' = xSemaphoreGive(g_pSPI1Semaphore)
          /\ Return(t, TRUE)
          /\ UNCHANGED g_pSPI0Semaphore
    /\ UNCHANGED nonHalVars

EthoControllerSingleWrite(t) ==
    /\ Running(t, "EthoControllerSingleWrite")
    /\ \/ /\ Top(t).pc = "take"
          /\ g_pSPI1Semaphore' = xSemaphoreTake(g_pSPI1Semaphore, t)
          /\ halStack' = SetTop(t, [Top(t) EXCEPT !.pc = "xfer"])
          /\ UNCHANGED <<g_pSPI0Semaphore, halRet>>
       \/ /\ Top(t).pc = "xfer"
          /\ g_pSPI1Semaphore' = xSemaphoreGive(g_pSPI1Semaphore)
          /\ Return(t, TRUE)
          /\ UNCHANGED g_pSPI0Semaphore
    /\ UNCHANGED nonHalVars

\* the SPI channel a HAL operation drives
Channel(fn) == IF fn \in EEPROMOps THEN "SPI0" ELSE "SPI1"

ChannelToken(ch) == IF ch = "SPI0" THEN g_pSPI0Semaphore ELSE g_pSPI1Semaphore

\* task t has a HAL operation on channel ch that is past its token
\* acquisition and has not returned
InProgress(t, ch) ==
    \E i \in 1..Len(halStack[t]) :
        /\ Channel(halStack[t][i].fn) = ch
        /\ halStack[t][i].pc # "take"

\* C1: on each SPI channel at most one HAL operation is in progress at any
\* time, so bus transactions of different tasks never interleave.
C1_AtMostOneOperationPerChannel ==
    \A ch \in {"SPI0", "SPI1"} :
        Cardinality({t \in Tasks : InProgress(t, ch)}) <= 1

\* C4: a task whose HAL operation has returned, on any exit path, no longer
\* holds the channel's token.
C4_TokenReleasedOnEveryExit ==
    \A t \in Tasks :
        ~Active(t) => (g_pSPI0Semaphore # t /\ g_pSPI1Semaphore # t)

(***************************************************************************)
(* Console: users, login, the command tree and its dispatcher.             *)
(***************************************************************************)
ReadOnlyUser == 0

ModifyPortsOnly == 1

ModifySystem == 2

Administrator == 3

PermLevel == {ReadOnlyUser, ModifyPortsOnly, ModifySystem, Administrator}

MAX_USERS == 15

MAX_DEPTH_INHERITANCE == 12

User_Data(username, first_name, last_name, password, permissions, nextAction) ==
    [username |-> username, first_name |-> first_name, last_name |-> last_name,
     password |-> password, permissions |-> permissions, isMarked |-> FALSE,
     nextAction |-> nextAction]

EmptyUser == User_Data("", "", "", "", ReadOnlyUser, "None")

Command(text, isExecutable, paramsRequired, paramsUserProvided, func, functionParams, childCommand, permissionsRequired) ==
    [text |-> text, isExecutable |-> isExecutable,
     paramsRequired |-> paramsRequired,
     paramsUserProvided |-> paramsUserProvided, func |-> func,
     functionParams |-> functionParams, childCommand |-> childCommand,
     permissionsRequired |-> permissionsRequired]

NO_CHILD_MENU == <<>>

Enable_Disable_Options ==
    <<
    Command("enable", TRUE, 1, FALSE, "COM_SetBitEthernetController",
            <<"Enabling Feature...">>, NO_CHILD_MENU, ModifyPortsOnly),
    Command("disable", TRUE, 1, FALSE, "COM_ClearBitEthernetController",
            <<"Disabling Feature...">>, NO_CHILD_MENU, ModifyPortsOnly)
    >>

INV_Enable_Disable_Options ==
    <<
    Command("enable", TRUE, 1, FALSE, "COM_ClearBitEthernetController",
            <<"Enabling Feature...">>, NO_CHILD_MENU, ModifyPortsOnly),
    Command("disable", TRUE, 1, FALSE, "COM_SetBitEthernetController",
            <<"Disabling Feature...">>, NO_CHILD_MENU, ModifyPortsOnly)
    >>

Bitrate_Settings ==
    <<
    Command("<speed [bits/sec]>", TRUE, 1, TRUE, "NotImplementedFunction",
            <<"">>, NO_CHILD_MENU, ModifyPortsOnly)
    >>

WriteEEPROMRegister_Options2 ==
    <<
    Command("<data [0x00000000 - 0xFFFFFFFF]>", TRUE, 1, TRUE, "COM_WriteToEEPOM",
            <<"">>, NO_CHILD_MENU, ModifySystem)
    >>

WriteEEPROMRegister_Options ==
    <<
    Command("<register-addr [0x00000000 - 0xFFFFFFFF]>", FALSE, 1, TRUE, "NotImplementedFunction",
            <<"">>, WriteEEPROMRegister_Options2, ModifySystem)
    >>

ReadEEPROMRegister_Options ==
    <<
    Command("<register-addr [0x00 - 0xFF]>", TRUE, 1, TRUE, "COM_ReadFromEEPROM",
            <<"">>, NO_CHILD_MENU, ReadOnlyUser)
    >>

EEPROM_Options ==
    <<
    Command("read-reg", FALSE, 0, FALSE, "NotImplementedFunction",
            <<"">>, ReadEEPROMRegister_Options, ReadOnlyUser),
    Command("write-reg", FALSE, 0, FALSE, "NotImplementedFunction",
            <<"">>, WriteEEPROMRegister_Options, ModifySystem),
    Command("reinitialize", TRUE, 0, FALSE, "COM_ReinitializeEEPROM",
            <<"">>, NO_CHILD_MENU, ModifySystem)
    >>

LED_Options ==
    <<
    Command("mode-0", TRUE, 1, FALSE, "COM_ClearBitEthernetController",
            <<"Setting LEDs To Mode 0">>, NO_CHILD_MENU, ModifyPortsOnly),
    Command("mode-1", TRUE, 1, FALSE, "COM_SetBitEthernetController",
            <<"Setting LEDs To Mode 1">>, NO_CHILD_MENU, ModifyPortsOnly)
    >>

Table_Options ==
    <<
    Command("vlan-table", TRUE, 0, FALSE, "COM_ShowVLANTable",
            <<"">>, NO_CHILD_MENU, ReadOnlyUser),
    Command("static-mac-table", TRUE, 0, FALSE, "COM_ShowStaticMACTable",
            <<"">>, NO_CHILD_MENU, ReadOnlyUser),
    Command("dyn-mac-table", TRUE, 0, FALSE, "COM_ShowDynamicMACTable",
            <<"">>, NO_CHILD_MENU, ReadOnlyUser)
    >>

I2C_Command_Code ==
    <<
    Command("<i2c-command [0x00 - 0xFF]>", TRUE, 1, TRUE, "COM_I2CSend",
            <<"">>, NO_CHILD_MENU, ModifySystem)
    >>

I2C_Options ==
    <<
    Command("send-command", FALSE, 0, FALSE, "NotImplementedFunction",
            <<"">>, I2C_Command_Code, ModifySystem)
    >>

System_Commands ==
    <<
    Command("eeprom", FALSE, 0, FALSE, "NotImplementedFunction",
            <<"">>, EEPROM_Options, ModifySystem),
    Command("i2c", FALSE, 0, FALSE, "NotImplementedFunction",
            <<"">>, I2C_Options, ModifySystem),
    Command("status", TRUE, 0, FALSE, "COM_ShowRunningConfig",
            <<"">>, NO_CHILD_MENU, ReadOnlyUser),
    Command("rapid-link-aging", FALSE, 3, FALSE, "NotImplementedFunction",
            <<"GLOBAL_CONTROL_0", "0x00">>, Enable_Disable_Options, ModifySystem),
    Command("large-packets", FALSE, 3, FALSE, "NotImplementedFunction",
            <<"GLOBAL_CONTROL_1", "0x06">>, Enable_Disable_Options, ModifySystem),
    Command("power-saving", FALSE, 3, FALSE, "NotImplementedFunction",
            <<"GLOBAL_CONTROL_9", "0x03">>, INV_Enable_Disable_Options, ModifySystem),
    Command("led-mode", FALSE, 3, FALSE, "NotImplementedFunction",
            <<"GLOBAL_CONTROL_9", "0x01">>, LED_Options, ModifySystem),
    Command("show", FALSE, 0, FALSE, "NotImplementedFunction",
            <<"">>, Table_Options, ReadOnlyUser),
    Command("reset", TRUE, 0, FALSE, "COM_ResetTivaC",
            <<"">>, NO_CHILD_MENU, ModifySystem)
    >>

WriteRegister_Options2 ==
    <<
    Command("<data [0x00 - 0xFF]>", TRUE, 1, TRUE, "COM_WriteToEthernetController",
            <<"">>, NO_CHILD_MENU, ModifySystem)
    >>

WriteRegister_Options ==
    <<
    Command("<register-addr [0x00 - 0xFF]>", FALSE, 1, TRUE, "NotImplementedFunction",
            <<"">>, WriteRegister_Options2, ModifySystem)
    >>

ReadRegister_Options ==
    <<
    Command("<register-addr [0x00 - 0xFF]>", TRUE, 1, TRUE, "COM_ReadFromEthernetController",
            <<"">>, NO_CHILD_MENU, ReadOnlyUser)
    >>

Controller_Options ==
    <<
    Command("read-reg", FALSE, 0, FALSE, "NotImplementedFunction",
            <<"">>, ReadRegister_Options, ReadOnlyUser),
    Command("write-reg", FALSE, 0, FALSE, "NotImplementedFunction",
            <<"">>, WriteRegister_Options, ModifySystem)
    >>

Config_Commands ==
    <<
    Command("save", TRUE, 0, FALSE, "COM_SaveSwitchConfiguration",
            <<"">>, NO_CHILD_MENU, ModifyPortsOnly),
    Command("delete", TRUE, 1, FALSE, "COM_DeleteConfig",
            <<"">>, NO_CHILD_MENU, ModifySystem)
    >>

Sniffing_Settings ==
    <<
    Command("disable", TRUE, 3, FALSE, "COM_ClearBitEthernetController",
            <<"PORT_CONTROL1_OFFSET", "0x07", "Returning port to normal operational mode...">>, NO_CHILD_MENU, ModifyPortsOnly),
    Command("designate", TRUE, 3, FALSE, "COM_SetBitEthernetController",
            <<"PORT_CONTROL1_OFFSET", "0x07", "Setting port as sniffer...">>, NO_CHILD_MENU, ModifyPortsOnly),
    Command("sniff-tx", FALSE, 2, FALSE, "NotImplementedFunction",
            <<"PORT_CONTROL1_OFFSET", "0x05">>, Enable_Disable_Options, ModifyPortsOnly),
    Command("sniff-rx", FALSE, 2, FALSE, "NotImplementedFunction",
            <<"PORT_CONTROL1_OFFSET", "0x06">>, Enable_Disable_Options, ModifyPortsOnly)
    >>

VLAN__TableSettings ==
    <<
    Command("<vlan-id [1-4096]>", TRUE, 1, TRUE, "COM_SetVLANEntry",
            <<"">>, NO_CHILD_MENU, ModifyPortsOnly)
    >>

VLAN_Settings ==
    <<
    Command("enable", TRUE, 0, FALSE, "COM_EnableVLANS",
            <<"">>, NO_CHILD_MENU, ModifyPortsOnly),
    Command("disable", TRUE, 0, FALSE, "COM_DisableVLANS",
            <<"">>, NO_CHILD_MENU, ModifyPortsOnly),
    Command("add", FALSE, 0, FALSE, "NotImplementedFunction",
            <<"">>, VLAN__TableSettings, ModifyPortsOnly),
    Command("<vlan-id [1-4096]>", TRUE, 1, TRUE, "COM_SetPortVLAN",
            <<"">>, NO_CHILD_MENU, ModifyPortsOnly)
    >>

Duplex_Settings ==
    <<
    Command("half-duplex", TRUE, 3, FALSE, "COM_ClearBitEthernetController",
            <<"PORT_CONTROL5_OFFSET", "0x05", "Setting port to HALF-DUPLEX...">>, NO_CHILD_MENU, ModifyPortsOnly),
    Command("full-duplex", TRUE, 3, FALSE, "COM_SetBitEthernetController",
            <<"PORT_CONTROL5_OFFSET", "0x05", "Setting port to FULL-DUPLEX...">>, NO_CHILD_MENU, ModifyPortsOnly),
    Command("100BT", TRUE, 3, FALSE, "COM_SetBitEthernetController",
            <<"PORT_CONTROL5_OFFSET", "0x06", "Setting port to 100 Mbps...">>, NO_CHILD_MENU, ModifyPortsOnly),
    Command("10BT", TRUE, 3, FALSE, "COM_ClearBitEthernetController",
            <<"PORT_CONTROL5_OFFSET", "0x06", "Setting port to 10 Mbps...">>, NO_CHILD_MENU, ModifyPortsOnly)
    >>

Port_Options ==
    <<
    Command("enable", TRUE, 3, FALSE, "COM_ClearBitEthernetController",
            <<"PORT_CONTROL6_OFFSET", "0x03", "Enabling Selected Port...">>, NO_CHILD_MENU, ModifyPortsOnly),
    Command("disable", TRUE, 3, FALSE, "COM_SetBitEthernetController",
            <<"PORT_CONTROL6_OFFSET", "0x03", "Disabling Selected Port...">>, NO_CHILD_MENU, ModifyPortsOnly),
    Command("vlan", FALSE, 0, FALSE, "NotImplementedFunction",
            <<"">>, VLAN_Settings, ModifyPortsOnly),
    Command("speed", FALSE, 0, FALSE, "NotImplementedFunction",
            <<"">>, Duplex_Settings, ModifyPortsOnly),
    Command("status", TRUE, 0, FALSE, "COM_ShowPortStatus",
            <<"">>, NO_CHILD_MENU, ReadOnlyUser),
    Command("broadcast-storm", FALSE, 2, FALSE, "NotImplementedFunction",
            <<"PORT_CONTROL0_OFFSET", "0x07">>, Enable_Disable_Options, ModifyPortsOnly),
    Command("sniff-state", FALSE, 0, FALSE, "NotImplementedFunction",
            <<"">>, Sniffing_Settings, ModifyPortsOnly),
    Command("toggle-tx", FALSE, 2, FALSE, "NotImplementedFunction",
            <<"PORT_CONTROL2_OFFSET", "0x02">>, Enable_Disable_Options, ModifyPortsOnly),
    Command("toggle-rx", FALSE, 2, FALSE, "NotImplementedFunction",
            <<"PORT_CONTROL2_OFFSET", "0x01">>, Enable_Disable_Options, ModifyPortsOnly),
    Command("run-diag", TRUE, 0, FALSE, "COM_RunCableDiagnostics",
            <<"">>, NO_CHILD_MENU, ReadOnlyUser),
    Command("auto-neg", FALSE, 2, FALSE, "NotImplementedFunction",
            <<"PORT_CONTROL5_OFFSET", "0x07">>, INV_Enable_Disable_Options, ModifyPortsOnly),
    Command("restart-auto-neg", TRUE, 3, FALSE, "COM_SetSCBitEthernetController",
            <<"PORT_CONTROL6_OFFSET", "0x05", "Restarting Auto-MDI/MDIX">>, NO_CHILD_MENU, ModifyPortsOnly),
    Command("auto-mdix", FALSE, 2, FALSE, "NotImplementedFunction",
            <<"PORT_CONTROL6_OFFSET", "0x02">>, INV_Enable_Disable_Options, ModifyPortsOnly),
    Command("force-mdi", FALSE, 2, FALSE, "NotImplementedFunction",
            <<"PORT_CONTROL6_OFFSET", "0x01">>, Enable_Disable_Options, ModifyPortsOnly)
    >>

Port_Commands ==
    <<
    Command("f0", FALSE, 1, FALSE, "NotImplementedFunction",
            <<"PORT1_OFFSET">>, Port_Options, ReadOnlyUser),
    Command("f1", FALSE, 1, FALSE, "NotImplementedFunction",
            <<"PORT2_OFFSET">>, Port_Options, ReadOnlyUser),
    Command("f2", FALSE, 1, FALSE, "NotImplementedFunction",
            <<"PORT3_OFFSET">>, Port_Options, ReadOnlyUser),
    Command("f3", FALSE, 1, FALSE, "NotImplementedFunction",
            <<"PORT4_OFFSET">>, Port_Options, ReadOnlyUser)
    >>

Event_Options ==
    <<
    Command("status", TRUE, 0, FALSE, "COM_EventStatus",
            <<"">>, NO_CHILD_MENU, ReadOnlyUser),
    Command("manage", TRUE, 0, FALSE, "COM_ManageEvents",
            <<"">>, NO_CHILD_MENU, Administrator),
    Command("list", TRUE, 0, FALSE, "COM_ListEvents",
            <<"">>, NO_CHILD_MENU, Administrator),
    Command("clear", TRUE, 0, FALSE, "COM_DeleteEvents",
            <<"">>, NO_CHILD_MENU, Administrator)
    >>

User_Options ==
    <<
    Command("list", TRUE, 0, FALSE, "COM_ListUsers",
            <<"">>, NO_CHILD_MENU, ReadOnlyUser),
    Command("add", TRUE, 0, FALSE, "COM_AddUser",
            <<"">>, NO_CHILD_MENU, Administrator),
    Command("delete", TRUE, 0, FALSE, "COM_DeleteUsersMenu",
            <<"">>, NO_CHILD_MENU, Administrator)
    >>

Admin_Commands ==
    <<
    Command("users", FALSE, 0, FALSE, "NotImplementedFunction",
            <<"">>, User_Options, ReadOnlyUser),
    Command("events", FALSE, 0, FALSE, "NotImplementedFunction",
            <<"">>, Event_Options, ReadOnlyUser)
    >>

Command_Categories ==
    <<
    Command("admin", FALSE, 0, FALSE, "NotImplementedFunction",
            <<"">>, Admin_Commands, ReadOnlyUser),
    Command("port", FALSE, 0, FALSE, "NotImplementedFunction",
            <<"">>, Port_Commands, ReadOnlyUser),
    Command("controller", FALSE, 0, FALSE, "NotImplementedFunction",
            <<"">>, Controller_Options, ReadOnlyUser),
    Command("system", FALSE, 0, FALSE, "NotImplementedFunction",
            <<"">>, System_Commands, ReadOnlyUser),
    Command("config", FALSE, 0, FALSE, "NotImplementedFunction",
            <<"">>, Config_Commands, ModifyPortsOnly),
    Command("logout", TRUE, 0, FALSE, "COM_Logout",
            <<"">>, NO_CHILD_MENU, ReadOnlyUser)
    >>

\* commandwords[i] of a line with fewer than i+1 words is a null pointer
NoWord == "<null>"

Word(line, i) == IF i < Len(line) THEN line[i + 1] ELSE NoWord

\* the dispatcher's test that entry e accepts word i of the line
Matches(e, line, i) ==
    /\ \/ e.text = Word(line, i)
       \/ (e.paramsUserProvided /\ i < Len(line))
    /\ Word(line, i) # "?"

\* the parameters entry e adds to the handler's parameter buffer
BranchParams(e, line, i) ==
    [l \in 1..e.paramsRequired |->
        IF e.paramsUserProvided THEN Word(line, i)
        ELSE IF l <= Len(e.functionParams) THEN e.functionParams[l]
        ELSE NoWord]

\* permission tests that differ from the dispatcher's
UnauthorizedAtEqualLevel(e, user) == e.permissionsRequired >= user.permissions

UnauthorizedNever(e, user) == FALSE

\* the terminal-command permission test
Unauthorized(e, user) == e.permissionsRequired > user.permissions

Outcome(msg, e, params) ==
    [msg |-> msg, func |-> IF msg = "Executed" THEN e.func ELSE "none",
     params |-> params, entry |-> e]

NoEntry == Command("", FALSE, 0, FALSE, "none", <<>>, NO_CHILD_MENU, ReadOnlyUser)

\* The command-tree walk of InterpreterTask: entry j of Menu against word i.
RECURSIVE WalkMenu(_, _, _, _, _, _, _)
WalkMenu(Menu, j, line, i, params, foundChild, user) ==
    IF i >= MAX_DEPTH_INHERITANCE
    THEN Outcome("None", NoEntry, params)
    ELSE IF j > Len(Menu)
    THEN IF foundChild
         THEN Outcome("Incomplete", NoEntry, params)
         ELSE Outcome("NotRecognized", NoEntry, params)
    ELSE LET e == Menu[j] IN
         IF Matches(e, line, i)
         THEN LET p == params \o BranchParams(e, line, i) IN
              IF e.isExecutable
              THEN IF Word(line, i + 1) # NoWord
                   THEN Outcome("TooManyParameters", e, p)
                   ELSE IF Unauthorized(e, user)
                   THEN Outcome("Unauthorized", e, p)
                   ELSE Outcome("Executed", e, p)
              ELSE WalkMenu(e.childCommand, 1, line, i + 1, p, TRUE, user)
         ELSE IF Word(line, i) = "?"
         THEN Outcome("Help", NoEntry, params)
         ELSE WalkMenu(Menu, j + 1, line, i, params, foundChild, user)

Dispatch(line, user) ==
    IF line = <<>> THEN Outcome("None", NoEntry, <<>>)
    ELSE WalkMenu(Command_Categories, 1, line, 0, <<>>, FALSE, user)

\* bounds of the console inputs explored
MaxWords == 6

MaxAddedUsers == 1

CliNames == {"root", "ops"}

CliPasswords == {"root", "pw"}

\* a word typed where the tree takes a user-provided parameter
UserWord == "0x5A"

Range(seq) == {seq[k] : k \in 1..Len(seq)}

\* console lines explored: every path of the command tree, complete or not,
\* with and without a surplus word, a help request or an unknown word
RECURSIVE LinesOf(_, _)
LinesOf(Menu, d) ==
    IF d = 0 THEN {<<>>}
    ELSE {<<>>, <<"?">>, <<"bogus">>} \cup
         UNION {
            {<<IF e.paramsUserProvided THEN UserWord ELSE e.text>> \o rest :
                rest \in IF e.isExecutable
                         THEN {<<>>, <<UserWord>>}
                         ELSE LinesOf(e.childCommand, d - 1)} :
            e \in Range(Menu)}

CliLines == LinesOf(Command_Categories, MaxWords)

\* handlers that call an EEPROM write or erase operation of the HAL
EEPROMWritingHandlers ==
    {"COM_SaveSwitchConfiguration", "COM_WriteToEEPOM", "COM_ReinitializeEEPROM",
     "COM_DeleteConfig", "COM_DeleteEvents", "COM_SetVLANEntry"}

NoOutcome == Outcome("None", NoEntry, <<>>)

NumUsers == Cardinality({k \in 0..(MAX_USERS - 1) : users[k].username # ""})

\* slot COM_AddUser stores the new user in
AvailableSlot ==
    LET used == {k \in 0..(MAX_USERS - 1) : users[k].first_name # ""} IN
    IF used = {} THEN 0
    ELSE (CHOOSE k \in used : \A k2 \in used : k2 <= k) + 1

\* the scan of the user table in the login loop: the slots whose name is
\* not empty and whose name and password equal the strings entered
LoginMatchNameOnly(us, auth_username, auth_password) ==
    {i \in 0..MAX_USERS : us[i].username # "" /\ us[i].username = auth_username}

LoginMatch(us, auth_username, auth_password) ==
    {i \in 0..MAX_USERS :
        /\ us[i].username # ""
        /\ us[i].username = auth_username
        /\ us[i].password = auth_password}

\* event codes the console task reports, and the logger's queue
UserLoggedIn == 8

UserLoggedOut == 9

LOGGER_QUEUE_SIZE == 10

\* a queue send that does not wait: the item is dropped when the queue is full
xQueueSend(queue, item) ==
    IF Len(queue) < LOGGER_QUEUE_SIZE THEN Append(queue, item) ELSE queue

\* the login loop: one username/password attempt
CliLogin ==
    /\ cliPc = "top"
    /\ ~Authenticated
    /\ \E auth_username \in CliNames, auth_password \in CliPasswords :
         LET hits == LoginMatch(users, auth_username, auth_password) IN
         /\ cliOut' = Outcome("Login", NoEntry, <<auth_username, auth_password>>)
         /\ IF hits # {}
            THEN /\ Authenticated' = TRUE
                 /\ ActiveUser' = users[CHOOSE i \in hits : \A i2 \in hits : i <= i2]
                 /\ g_pLoggerQueue' = xQueueSend(g_pLoggerQueue, UserLoggedIn)
            ELSE UNCHANGED <<Authenticated, ActiveUser, g_pLoggerQueue>>
    /\ UNCHANGED <<users, cliPc, commandwords>>
    /\ UNCHANGED <<LogStatusFlags, NextLogSlot, last_code_issued, logResident, logWrites>>
    /\ UNCHANGED <<halVars, storeVars, i2cVars, pmVars, bitVars>>

\* a completed console line is taken from the queue and split into words
CliReceive ==
    /\ cliPc = "top"
    /\ Authenticated
    /\ \E line \in CliLines :
         /\ (line = <<"admin", "users", "add">>) => NumUsers < MaxAddedUsers
         /\ commandwords' = line
    /\ cliPc' = "walk"
    /\ UNCHANGED <<Authenticated, ActiveUser, users, cliOut>>
    /\ UNCHANGED nonCliVars

\* the command tree is walked and, when allowed, the handler runs
CliWalk ==
    /\ cliPc = "walk"
    /\ LET out == Dispatch(commandwords, ActiveUser) IN
         /\ cliOut' = out
         /\ Authenticated' = IF out.func = "COM_Logout" THEN FALSE ELSE Authenticated
         /\ IF out.func = "COM_AddUser" /\ users[MAX_USERS - 1].username = ""
            THEN \E name \in CliNames, pw \in CliPasswords, perm \in PermLevel :
                   /\ \A k \in 0..(MAX_USERS - 1) : users[k].username # name
                   /\ users' = [users EXCEPT ![AvailableSlot] =
                          User_Data(name, "First", "Last", pw, perm, "Add")]
            ELSE UNCHANGED users
         /\ g_pLoggerQueue' = IF out.func = "COM_Logout"
                              THEN xQueueSend(g_pLoggerQueue, UserLoggedOut)
                              ELSE g_pLoggerQueue
    /\ cliPc' = "prompt"
    /\ UNCHANGED <<ActiveUser, commandwords>>
    /\ UNCHANGED <<LogStatusFlags, NextLogSlot, last_code_issued, logResident, logWrites>>
    /\ UNCHANGED <<halVars, storeVars, i2cVars, pmVars, bitVars>>

\* the prompt is printed and the task goes back to the top of its loop
CliPrompt ==
    /\ cliPc = "prompt"
    /\ cliPc' = "top"
    /\ commandwords' = <<>>
    /\ cliOut' = NoOutcome
    /\ UNCHANGED <<Authenticated, ActiveUser, users>>
    /\ UNCHANGED nonCliVars

\* C2: when a console line names a terminal command c (and nothing beyond
\* it), c's handler is invoked if and only if c's required permission is at
\* most the role of the logged-in user.
C2_HandlerInvokedIffPermitted ==
    (/\ cliPc = "prompt"
     /\ cliOut.entry.isExecutable
     /\ cliOut.msg # "TooManyParameters")
    => ((cliOut.func = cliOut.entry.func)
            <=> (cliOut.entry.permissionsRequired <= ActiveUser.permissions))

\* a ModifyPorts user ran "config save", whose required permission equals
\* the user's role
C2_Witness ==
    /\ cliPc = "prompt"
    /\ commandwords = <<"config", "save">>
    /\ ActiveUser.permissions = ModifyPortsOnly
    /\ cliOut.func = "COM_SaveSwitchConfiguration"

\* C3: "config save" typed by a ReadOnly user gets the unauthorized message;
\* the save handler is not invoked and no handler that writes the EEPROM runs.
C3_ReadOnlyCannotSave ==
    (/\ cliPc = "prompt"
     /\ commandwords = <<"config", "save">>
     /\ ActiveUser.permissions = ReadOnlyUser)
    => (/\ cliOut.msg = "Unauthorized"
        /\ cliOut.func # "COM_SaveSwitchConfiguration"
        /\ cliOut.func \notin EEPROMWritingHandlers)

\* a ReadOnly user typed "config save" and was refused
C3_Witness ==
    /\ cliPc = "prompt"
    /\ commandwords = <<"config", "save">>
    /\ ActiveUser.permissions = ReadOnlyUser
    /\ ActiveUser.username = "ops"
    /\ cliOut.msg = "Unauthorized"

CliInit ==
    /\ Authenticated = FALSE
    /\ ActiveUser = EmptyUser
    /\ users = [k \in 0..MAX_USERS |->
                  IF k = MAX_USERS
                  THEN User_Data("root", "DEFAULT", "ADMIN", "root", Administrator, "None")
                  ELSE EmptyUser]
    /\ cliPc = "top"
    /\ commandwords = <<>>
    /\ cliOut = NoOutcome

CliNext == CliLogin \/ CliReceive \/ CliWalk \/ CliPrompt

(***************************************************************************)
(* Event logger.                                                           *)
(***************************************************************************)
EEPROMWriteOP == 2

EEPROM_LOG_BASE == 5632

MAX_LOG_ENTRIES == 400

\* bounds of the logger runs explored
MaxLogWrites == 405

MaxPending == 1

\* codes posted by the other tasks
PostedCodes == {UserLoggedIn, UserLoggedOut}

\* events an administrator can switch on or off
ManagedCodes == {EEPROMWriteOP, UserLoggedIn, UserLoggedOut}

Pow2(n) == 2 ^ n

\* (x >> n) & 1
BitOf(x, n) == (x \div Pow2(n)) % 2

RECURSIVE SendTimes(_, _, _)
SendTimes(queue, item, n) ==
    IF n = 0 THEN queue ELSE SendTimes(xQueueSend(queue, item), item, n - 1)

\* the slot that follows the record written at NextLogSlot
AdvanceLogSlot(slot) ==
    IF slot + 5 > EEPROM_LOG_BASE + MAX_LOG_ENTRIES
    THEN EEPROM_LOG_BASE
    ELSE slot + 5

\* another task reports an event
LogItemEEPROM ==
    /\ Len(g_pLoggerQueue) < MaxPending
    /\ \E code \in PostedCodes :
         g_pLoggerQueue' = xQueueSend(g_pLoggerQueue, code)
    /\ UNCHANGED <<LogStatusFlags, NextLogSlot, last_code_issued, logResident, logWrites>>
    /\ UNCHANGED nonLogVars

\* the administrator toggles one event in the "admin events manage" menu
COM_ManageEvents ==
    /\ \E current_item \in ManagedCodes :
         LogStatusFlags' =
            IF BitOf(LogStatusFlags, current_item) = 1
            THEN LogStatusFlags - Pow2(current_item)
            ELSE LogStatusFlags + Pow2(current_item)
    /\ UNCHANGED <<g_pLoggerQueue, NextLogSlot, last_code_issued, logResident, logWrites>>
    /\ UNCHANGED nonLogVars

\* one round of the logger loop that finds a code in the queue
LoggerTask ==
    /\ g_pLoggerQueue # <<>>
    /\ LET code_issued == Head(g_pLoggerQueue)
           rest == Tail(g_pLoggerQueue)
       IN
       IF BitOf(LogStatusFlags, code_issued) = 1
       THEN \* last_code_issued is read uninitialised the first time
            \E differs \in (IF last_code_issued = {}
                            THEN BOOLEAN
                            ELSE {last_code_issued # {code_issued}}) :
              IF differs
              THEN /\ logWrites < MaxLogWrites
                   \* five EEPROMSingleWrite calls, each reporting a write
                   /\ g_pLoggerQueue' = SendTimes(rest, EEPROMWriteOP, 5)
                   /\ logResident' = logResident \cup {NextLogSlot}
                   /\ logWrites' = logWrites + 1
                   /\ NextLogSlot' = AdvanceLogSlot(NextLogSlot)
                   /\ last_code_issued' = {code_issued}
                   /\ UNCHANGED LogStatusFlags
              ELSE /\ g_pLoggerQueue' = rest
                   /\ UNCHANGED <<LogStatusFlags, NextLogSlot, last_code_issued,
                                  logResident, logWrites>>
       ELSE /\ g_pLoggerQueue' = rest
            /\ UNCHANGED <<LogStatusFlags, NextLogSlot, last_code_issued,
                           logResident, logWrites>>
    /\ UNCHANGED nonLogVars

LogInit ==
    /\ g_pLoggerQueue = <<>>
    /\ LogStatusFlags = 0
    /\ NextLogSlot = EEPROM_LOG_BASE
    /\ last_code_issued = {}
    /\ logResident = {}
    /\ logWrites = 0

LogNext == LogItemEEPROM \/ COM_ManageEvents \/ LoggerTask

\* C6: the log is a ring of 400 records: the next-log-slot advances by 5
\* with every record and wraps to the base address exactly on the 401st
\* write, and once more than 400 records were written exactly 400 are
\* resident.
C6_RingOf400Records ==
    /\ logWrites < MAX_LOG_ENTRIES => NextLogSlot = EEPROM_LOG_BASE + 5 * logWrites
    /\ logWrites = MAX_LOG_ENTRIES => NextLogSlot = EEPROM_LOG_BASE
    /\ logWrites > MAX_LOG_ENTRIES => Cardinality(logResident) = MAX_LOG_ENTRIES

(***************************************************************************)
(* Bytes stored in the EEPROM.                                             *)
(***************************************************************************)
\* (uint8_t)x
U8(x) == x % 256

\* (uint8_t)~x
Inv8(x) == 255 - U8(x)

RECURSIVE BitOr(_, _)
BitOr(a, b) ==
    IF a = 0 THEN b
    ELSE IF b = 0 THEN a
    ELSE (IF a % 2 = 1 \/ b % 2 = 1 THEN 1 ELSE 0) + 2 * BitOr(a \div 2, b \div 2)

RECURSIVE BitAnd(_, _)
BitAnd(a, b) ==
    IF a = 0 \/ b = 0 THEN 0
    ELSE (IF a % 2 = 1 /\ b % 2 = 1 THEN 1 ELSE 0) + 2 * BitAnd(a \div 2, b \div 2)

Shl(x, n) == x * Pow2(n)

Shr(x, n) == x \div Pow2(n)

\* the device: eeprom lists the cells that are programmed, every other cell
\* is erased and reads 0xFF
ErasedEEPROM == [cell \in {} |-> 255]

EEPROMCell(mem, cell) == IF cell \in DOMAIN mem THEN mem[cell] ELSE 255

EEPROMProgram(mem, cell, raw) ==
    IF raw = 255
    THEN [c \in DOMAIN mem \ {cell} |-> mem[c]]
    ELSE [c \in DOMAIN mem \cup {cell} |-> IF c = cell THEN raw ELSE mem[c]]

\* three address bytes are sent; the device decodes the low 17 bits
EEPROMDecode(address) == (address % 16777216) % EEPROM_SIZE

\* the array after EEPROMSingleWrite: the inverted byte is programmed
EEPROMSingleWriteData(mem, address, data) ==
    EEPROMProgram(mem, EEPROMDecode(address), Inv8(data))

\* its result: the byte read back equals the inverted byte
EEPROMSingleWriteOk(mem, address, data) ==
    Inv8(data) = EEPROMCell(EEPROMSingleWriteData(mem, address, data), EEPROMDecode(address))

EEPROMSingleReadDataNotInverted(mem, address) ==
    U8(EEPROMCell(mem, EEPROMDecode(address)))

\* the byte EEPROMSingleRead returns: the cell, inverted back
EEPROMSingleReadData(mem, address) ==
    Inv8(EEPROMCell(mem, EEPROMDecode(address)))

\* EEPROMBulkWrite: one single write per byte until the buffer or the array
\* ends (a single write that reads back the byte it stored never takes the
\* branch that halts the task)
EEPROMBulkWriteData(mem, start_address, data, array_length) ==
    LET written == IF start_address >= EEPROM_SIZE THEN 0
                   ELSE IF start_address + array_length > EEPROM_SIZE
                   THEN EEPROM_SIZE - start_address
                   ELSE array_length
        range == start_address..(start_address + written - 1)
        programmed == {c \in range : Inv8(data[c - start_address + 1]) # 255}
    IN [mem |-> [c \in (DOMAIN mem \ range) \cup programmed |->
                    IF c \in range THEN Inv8(data[c - start_address + 1]) ELSE mem[c]],
        ret |-> start_address < EEPROM_SIZE /\ written = array_length]

\* EEPROMBulkRead into the caller's buffer: one single read per byte until
\* the buffer or the array ends
EEPROMBulkReadData(mem, start_address, output, array_length) ==
    LET read == IF start_address >= EEPROM_SIZE THEN 0
                ELSE IF start_address + array_length > EEPROM_SIZE
                THEN EEPROM_SIZE - start_address
                ELSE array_length
    IN [output |-> [k \in DOMAIN output |->
                      IF k <= read
                      THEN EEPROMSingleReadData(mem, start_address + k - 1)
                      ELSE output[k]],
        ret |-> start_address < EEPROM_SIZE /\ read = array_length]

\* addresses and bytes of the EEPROM operations explored
StoreAddrs == {768, 131071}

BulkStarts == {768, 131071, 131072}

StoreBytes == {0, 90, 255}

Buffers == UNION {[1..n -> StoreBytes] : n \in 1..MaxBulkLen}

NoImage == [valid |-> FALSE]

NoStoreOut == [op |-> "none", addr |-> 0, data |-> <<>>, ret |-> TRUE]

\* "system eeprom write-reg <address> <data>"
COM_WriteToEEPOM ==
    /\ \E reg_addr \in StoreAddrs, reg_data \in StoreBytes :
         /\ eeprom' = EEPROMSingleWriteData(eeprom, reg_addr, reg_data)
         /\ storeOut' = [op |-> "write", addr |-> reg_addr, data |-> <<reg_data>>,
                         ret |-> EEPROMSingleWriteOk(eeprom, reg_addr, reg_data)]
    /\ savedImage' = NoImage
    /\ UNCHANGED <<ethoRegs, vlanTable, users, LogStatusFlags, NextLogSlot>>
    /\ UNCHANGED <<storeOps, storeFrame>>

\* "system eeprom read-reg <address>"
COM_ReadFromEEPROM ==
    /\ \E reg_addr \in StoreAddrs :
         storeOut' = [op |-> "read", addr |-> reg_addr,
                      data |-> <<EEPROMSingleReadData(eeprom, reg_addr)>>, ret |-> TRUE]
    /\ UNCHANGED <<eeprom, ethoRegs, vlanTable, savedImage, users, LogStatusFlags, NextLogSlot>>
    /\ UNCHANGED <<storeOps, storeFrame>>

\* a caller hands a buffer to EEPROMBulkWrite
EEPROMBulkWriteCall ==
    /\ \E start_address \in BulkStarts, data \in Buffers :
         LET r == EEPROMBulkWriteData(eeprom, start_address, data, Len(data)) IN
         /\ eeprom' = r.mem
         /\ storeOut' = [op |-> "bulkwrite", addr |-> start_address, data |-> data,
                         ret |-> r.ret]
    /\ savedImage' = NoImage
    /\ UNCHANGED <<ethoRegs, vlanTable, users, LogStatusFlags, NextLogSlot>>
    /\ UNCHANGED <<storeOps, storeFrame>>

\* a caller has EEPROMBulkRead fill a zeroed buffer
EEPROMBulkReadCall ==
    /\ \E start_address \in BulkStarts, array_length \in 1..MaxBulkLen :
         LET r == EEPROMBulkReadData(eeprom, start_address,
                                     [k \in 1..array_length |-> 0], array_length) IN
         storeOut' = [op |-> "bulkread", addr |-> start_address, data |-> r.output,
                      ret |-> r.ret]
    /\ UNCHANGED <<eeprom, ethoRegs, vlanTable, savedImage, users, LogStatusFlags, NextLogSlot>>
    /\ UNCHANGED <<storeOps, storeFrame>>

EEPROMNext ==
    \/ COM_WriteToEEPOM
    \/ COM_ReadFromEEPROM
    \/ EEPROMBulkWriteCall
    \/ EEPROMBulkReadCall

EEPROMIOException == 4

\* the array after the device's write cycle: the byte is stored, or the cycle
\* does not take and the cell keeps its content
WriteCycles(mem, address, data) ==
    {EEPROMSingleWriteData(mem, address, data), mem}

\* "data == READ_DATA": the inverted byte against the byte read back
WriteVerifiedAlways(data, READ_DATA) == TRUE

WriteVerified(data, READ_DATA) == Inv8(data) = READ_DATA

\* EEPROMSingleWrite from its first statement to its return, with the event
\* codes it reports
EEPROMSingleWriteCall ==
    /\ \E address \in StoreAddrs, data \in StoreBytes :
         \E after \in WriteCycles(eeprom, address, data) :
           LET READ_DATA == EEPROMSingleReadDataNotInverted(after, address)
               reported == xQueueSend(g_pLoggerQueue, EEPROMWriteOP)
           IN
           /\ eeprom' = after
           /\ IF WriteVerified(data, READ_DATA)
              THEN /\ g_pLoggerQueue' = reported
                   /\ storeOut' = [op |-> "singlewrite", addr |-> address,
                                   data |-> <<data>>, ret |-> TRUE]
              ELSE /\ g_pLoggerQueue' = xQueueSend(reported, EEPROMIOException)
                   /\ storeOut' = [op |-> "singlewrite", addr |-> address,
                                   data |-> <<data>>, ret |-> FALSE]
    /\ savedImage' = NoImage
    /\ UNCHANGED <<ethoRegs, vlanTable, storeOps, users, NextLogSlot, LogStatusFlags>>
    /\ UNCHANGED <<last_code_issued, logResident, logWrites>>
    /\ UNCHANGED <<halVars, i2cVars, pmVars, bitVars, Authenticated, ActiveUser, cliPc, commandwords, cliOut>>

WriteNext == EEPROMSingleWriteCall \/ LoggerTask

\* a step that is a call of EEPROMSingleWrite: the logger only takes codes
\* out of its queue
SingleWriteStep ==
    /\ storeOut'.op = "singlewrite"
    /\ Len(g_pLoggerQueue') >= Len(g_pLoggerQueue)

C28_BulkWriteRejectedWhole ==
    [][(/\ storeOut'.op = "bulkwrite"
        /\ storeOut' # storeOut
        /\ \/ storeOut'.addr >= EEPROM_SIZE
           \/ storeOut'.addr + Len(storeOut'.data) > EEPROM_SIZE)
       => (~storeOut'.ret /\ eeprom' = eeprom)]_vars

\* C8: a single write of byte b to a valid address followed by a single read
\* of that address returns b, and a bulk write inside the array followed by a
\* bulk read of the same range returns the buffer that was written.
C8_EEPROMRoundTrip ==
    [][/\ (/\ storeOut.op = "write"
           /\ storeOut'.op = "read"
           /\ storeOut'.addr = storeOut.addr)
          => storeOut'.data = storeOut.data
       /\ (/\ storeOut.op = "bulkwrite"
           /\ storeOut.addr + Len(storeOut.data) <= EEPROM_SIZE
           /\ storeOut'.op = "bulkread"
           /\ storeOut'.addr = storeOut.addr
           /\ Len(storeOut'.data) = Len(storeOut.data))
          => (storeOut'.ret /\ storeOut'.data = storeOut.data)]_vars

\* "read-reg 0x300" returned 0x5A, the byte "write-reg 0x300 0x5A" stored
C8_Witness ==
    /\ storeOut.op = "read"
    /\ storeOut.addr = 768
    /\ storeOut.data = <<90>>
    /\ EEPROMCell(eeprom, 768) = 165

(***************************************************************************)
(* The switch controller: its registers and its VLAN table, which is       *)
(* reached one row at a time through the indirect access registers.        *)
(***************************************************************************)
GLOBAL_CONTROL_3_HEX == 5

INDIRECT_ACCESS_CONTROL_0 == 110

INDIRECT_ACCESS_CONTROL_1 == 111

INDIRECT_CONTROL_READTYPEBIT == 4

INDIRECT_CONTROL_TABLESELECT == 2

INDIRECT_TABLESELECT_VLAN == 1

INDIRECT_REGISTER_DATA_6 == 114

INDIRECT_REGISTER_DATA_5 == 115

INDIRECT_REGISTER_DATA_4 == 116

INDIRECT_REGISTER_DATA_3 == 117

INDIRECT_REGISTER_DATA_2 == 118

INDIRECT_REGISTER_DATA_1 == 119

INDIRECT_REGISTER_DATA_0 == 120

PORT_CONTROL1_OFFSET_HEX == 1

PORT_CONTROL3_OFFSET_HEX == 3

PORT_CONTROL4_OFFSET_HEX == 4

\* a row of the table nothing was written to holds no valid entry
EthoRow(table, row) == IF row \in DOMAIN table THEN table[row] ELSE <<0, 0, 0, 0, 0, 0, 0>>

ProgramRow(table, row, values) ==
    IF values = <<0, 0, 0, 0, 0, 0, 0>>
    THEN [w \in DOMAIN table \ {row} |-> table[w]]
    ELSE [w \in DOMAIN table \cup {row} |-> IF w = row THEN values ELSE table[w]]

\* the access the controller performs when its indirect address register is
\* written: a row of the selected table is copied to or from the data registers
IndirectAccess(ctl) ==
    LET control0 == ctl.regs[INDIRECT_ACCESS_CONTROL_0]
        row == (control0 % 4) * 256 + ctl.regs[INDIRECT_ACCESS_CONTROL_1]
    IN
    IF Shr(control0, INDIRECT_CONTROL_TABLESELECT) % 4 # INDIRECT_TABLESELECT_VLAN
    THEN ctl
    ELSE IF BitOf(control0, INDIRECT_CONTROL_READTYPEBIT) = 1
    THEN [ctl EXCEPT !.regs =
            [r \in 0..255 |->
                IF r \in INDIRECT_REGISTER_DATA_6..INDIRECT_REGISTER_DATA_0
                THEN EthoRow(ctl.table, row)[r - INDIRECT_REGISTER_DATA_6 + 1]
                ELSE ctl.regs[r]]]
    ELSE [ctl EXCEPT !.table =
            ProgramRow(ctl.table, row,
                       [k \in 1..7 |-> ctl.regs[INDIRECT_REGISTER_DATA_6 + k - 1]])]

\* the controller after EthoControllerSingleWrite
EthoControllerSingleWriteData(ctl, address, data) ==
    LET written == [ctl EXCEPT !.regs[U8(address)] = U8(data)] IN
    IF U8(address) = INDIRECT_ACCESS_CONTROL_1 THEN IndirectAccess(written) ELSE written

\* the value EthoControllerSingleRead returns
EthoControllerSingleReadData(ctl, address) == ctl.regs[U8(address)]

\* the buffer EthoControllerBulkRead fills; it is left as it was when the
\* range is rejected
EthoControllerBulkReadData(ctl, start_address, count, output) ==
    IF start_address + count > ETHO_MAX_ADDR THEN output
    ELSE [k \in 1..count |-> EthoControllerSingleReadData(ctl, start_address + k - 1)]

\* read a register, OR bits into it and write it back
OrReg(ctl, address, bits) ==
    EthoControllerSingleWriteData(ctl, address,
        BitOr(EthoControllerSingleReadData(ctl, address), bits))

port_base_addrs == <<16, 32, 48, 64>>

FindIndex(a, size, value) ==
    LET hits == {index \in 0..(size - 1) : a[index + 1] = value} IN
    IF hits = {} THEN size ELSE CHOOSE index \in hits : \A h \in hits : index <= h

RECURSIVE AssertVLANSLoop(_, _, _, _, _)
AssertVLANSLoop(ctl, vlan_id, port_id, i, mask) ==
    IF i >= 4 THEN [ctl |-> ctl, mask |-> mask]
    ELSE LET base == port_base_addrs[i + 1]
             vlan_data ==
                BitOr(Shl(BitAnd(EthoControllerSingleReadData(ctl, PORT_CONTROL3_OFFSET_HEX + base), 15), 8),
                      BitAnd(EthoControllerSingleReadData(ctl, PORT_CONTROL4_OFFSET_HEX + base), 255))
         IN
         IF vlan_data = vlan_id
         THEN AssertVLANSLoop(
                 OrReg(ctl, PORT_CONTROL1_OFFSET_HEX + base,
                       Shl(1, FindIndex(port_base_addrs, 4, port_id))),
                 vlan_id, port_id, i + 1, U8(BitOr(mask, Shl(1, i))))
         ELSE AssertVLANSLoop(ctl, vlan_id, port_id, i + 1, mask)

\* the ports whose default VLAN is vlan_id, as a bit mask
AssertVLANS(ctl, vlan_id, port_id) == AssertVLANSLoop(ctl, vlan_id, port_id, 0, 0)

\* "port <p> vlan <id>": the default VLAN of a port
SetPortVLAN(ctl, port_addr, vlan_id) ==
    LET c0 == OrReg(ctl, port_addr, 4)
        c3 == EthoControllerSingleWriteData(c0, PORT_CONTROL3_OFFSET_HEX + port_addr,
                 BitOr(BitAnd(EthoControllerSingleReadData(c0, PORT_CONTROL3_OFFSET_HEX + port_addr), 248),
                       Shr(BitAnd(vlan_id, 3584), 8)))
        c4 == EthoControllerSingleWriteData(c3, PORT_CONTROL4_OFFSET_HEX + port_addr,
                 BitAnd(vlan_id, 255))
        a == AssertVLANS(c4, vlan_id, port_addr)
    IN EthoControllerSingleWriteData(a.ctl, PORT_CONTROL1_OFFSET_HEX + port_addr,
                                     BitAnd(a.mask, 31))

\* select a row of the VLAN table for reading: bits are OR-ed into control 0
IndirectRead(ctl, indirect_reg_addr) ==
    LET c0 == OrReg(ctl, INDIRECT_ACCESS_CONTROL_0,
                    BitOr(BitOr(Shl(INDIRECT_TABLESELECT_VLAN, INDIRECT_CONTROL_TABLESELECT),
                                Shl(1, INDIRECT_CONTROL_READTYPEBIT)),
                          BitAnd(Shr(indirect_reg_addr, 8), 255)))
    IN EthoControllerSingleWriteData(c0, INDIRECT_ACCESS_CONTROL_1,
                                     BitAnd(indirect_reg_addr, 255))

\* write the data registers to a row: the low five bits of control 0 are
\* cleared first
IndirectWrite(ctl, indirect_reg_addr) ==
    LET c0 == EthoControllerSingleWriteData(ctl, INDIRECT_ACCESS_CONTROL_0,
                 BitOr(BitAnd(EthoControllerSingleReadData(ctl, INDIRECT_ACCESS_CONTROL_0), 224),
                       BitOr(Shl(INDIRECT_TABLESELECT_VLAN, INDIRECT_CONTROL_TABLESELECT),
                             BitAnd(Shr(indirect_reg_addr, 8), 255))))
    IN EthoControllerSingleWriteData(c0, INDIRECT_ACCESS_CONTROL_1,
                                     BitAnd(indirect_reg_addr, 255))

\* the switch of COM_SetVLANEntry and of InitializeEEPROM: the entry at a
\* position of the selected row is marked valid and the membership bits are
\* OR-ed into the data registers
PackVLAN(ctl, position, port_membership) ==
    CASE position = 0 ->
           OrReg(OrReg(ctl, INDIRECT_REGISTER_DATA_1, BitOr(Shl(1, 4), Shr(port_membership, 1))),
                 INDIRECT_REGISTER_DATA_0, Shl(BitAnd(port_membership, 1), 7))
      [] position = 1 ->
           OrReg(OrReg(ctl, INDIRECT_REGISTER_DATA_3, BitOr(Shl(1, 1), Shr(port_membership, 4))),
                 INDIRECT_REGISTER_DATA_2, Shl(BitAnd(port_membership, 15), 4))
      [] position = 2 ->
           OrReg(ctl, INDIRECT_REGISTER_DATA_4, BitOr(Shl(1, 6), Shl(port_membership, 1)))
      [] position = 3 ->
           OrReg(OrReg(ctl, INDIRECT_REGISTER_DATA_6, BitOr(Shl(1, 3), Shr(port_membership, 2))),
                 INDIRECT_REGISTER_DATA_5, Shl(BitAnd(port_membership, 3), 6))

\* the switch of COM_SaveSwitchConfiguration: the byte saved for the entry at
\* a position of the seven register values read from a row
VLANData(indirect_reg_values, position) ==
    LET v(k) == indirect_reg_values[k + 1]
        vlan_status ==
            CASE position = 0 -> Shr(BitAnd(v(5), 16), 4)
              [] position = 1 -> Shr(BitAnd(v(3), 2), 1)
              [] position = 2 -> Shr(BitAnd(v(2), 64), 2)
              [] position = 3 -> Shr(BitAnd(v(0), 8), 3)
        port_membership ==
            CASE position = 0 -> BitAnd(v(5), 15) + Shr(v(6), 7)
              [] position = 1 -> BitAnd(v(3), 1) + Shr(v(4), 4)
              [] position = 2 -> Shr(v(2), 1)
              [] position = 3 -> BitAnd(v(0), 7) + Shr(v(1), 6)
    IN U8(BitOr(Shl(vlan_status, 7), Shl(port_membership, 2)))

EEPROM_VLAN_TABLE_BASE == 512

\* COM_SetVLANEntry: controller, EEPROM and the membership it wrote
SetVLANEntry(ctl, mem, port_addr, vlan_id) ==
    LET indirect_reg_addr == vlan_id \div 4
        selected == IndirectRead(ctl, indirect_reg_addr)
        a == AssertVLANS(selected, vlan_id, port_addr)
        packed == PackVLAN(a.ctl, vlan_id % 4, a.mask)
    IN [ctl |-> IndirectWrite(packed, indirect_reg_addr),
        mem |-> EEPROMSingleWriteData(mem, EEPROM_VLAN_TABLE_BASE + (vlan_id - 1),
                                      U8(128 + a.mask)),
        port_membership |-> a.mask]

(***************************************************************************)
(* Save-running-config and the boot restore.                               *)
(***************************************************************************)
FLAG_BASE == 30

FLAG_EEPROM_REINIT_REQUESTED == 7

FLAG_CONFIG_SAVED == 6

FLAG_CONFIG_VLAN_VALID == 5

FLAG_CONFIG_USERS_VALID == 4

EEPROM_FIRMWARE_SETTINGS == 30

EEPROM_FIRMWARE_LOGFLAGS_1 == 31

EEPROM_FIRMWARE_NEXTLOG_1 == 35

EEPROM_SWITCH_CONFIG_BASE == 256

EEPROM_USERS_BASE == 4608

\* VLAN ids the runs explored configure
MaxVlanId == 7

\* last VLAN id the save and restore loops visit
LastVlanId == IF MaxVlanId < 4095 THEN MaxVlanId ELSE 4095

\* the characters of the strings that occur in user records
Chars(s) ==
    CASE s = ""        -> <<>>
      [] s = "root"    -> <<114, 111, 111, 116>>
      [] s = "ops"     -> <<111, 112, 115>>
      [] s = "adm"     -> <<97, 100, 109>>
      [] s = "pw"      -> <<112, 119>>
      [] s = "First"   -> <<70, 105, 114, 115, 116>>
      [] s = "Last"    -> <<76, 97, 115, 116>>
      [] s = "DEFAULT" -> <<68, 69, 70, 65, 85, 76, 84>>
      [] s = "ADMIN"   -> <<65, 68, 77, 73, 78>>

Strings == {"", "root", "ops", "adm", "pw", "First", "Last", "DEFAULT", "ADMIN"}

\* a char[16] field holding a string
CharArray(s) == [k \in 1..16 |-> IF k <= Len(Chars(s)) THEN Chars(s)[k] ELSE 0]

\* the string a char[16] field holds
StringOf(array) ==
    LET hits == {s \in Strings : CharArray(s) = array} IN
    IF hits = {} THEN "?" ELSE CHOOSE s \in hits : TRUE

EmptyArray == [k \in 1..16 |-> 0]

\* true of every memory: the comparison lists the programmed cells, which
\* keeps the evaluation of a long sequence of writes shallow
Settled(mem) == mem = mem

\* the five writes that store one user record in an EEPROM slot
WriteUserSlot(mem, user_cnt, username, password, first_name, last_name, permissions) ==
    LET base == EEPROM_USERS_BASE + (user_cnt * 65)
        m1 == EEPROMBulkWriteData(mem, base, username, 16).mem
        m2 == EEPROMBulkWriteData(m1, base + 16, password, 16).mem
        m3 == EEPROMBulkWriteData(m2, base + 32, first_name, 16).mem
        m4 == EEPROMBulkWriteData(m3, base + 48, last_name, 16).mem
    IN EEPROMSingleWriteData(m4, base + 64, permissions)

WriteEmptySlot(mem, user_cnt) ==
    WriteUserSlot(mem, user_cnt, EmptyArray, EmptyArray, EmptyArray, EmptyArray, 0)

RECURSIVE FillEmptySlots(_, _)
FillEmptySlots(mem, user_cnt) ==
    IF Settled(mem) /\ user_cnt >= MAX_USERS THEN mem
    ELSE FillEmptySlots(WriteEmptySlot(mem, user_cnt), user_cnt + 1)

\* the user loop of the save: added and updated users are written, deleted
\* ones are blanked and the slots behind them are reused
RECURSIVE SaveUsers(_, _, _, _)
SaveUsers(mem, us, user_cnt, current_user) ==
    IF user_cnt >= MAX_USERS THEN mem
    ELSE LET u == us[current_user]
             m1 == IF u.nextAction \in {"Update", "Add"}
                   THEN WriteUserSlot(mem, user_cnt, CharArray(u.username),
                                      CharArray(u.password), CharArray(u.first_name),
                                      CharArray(u.last_name), u.permissions)
                   ELSE mem
             m2 == IF u.nextAction = "Delete" THEN WriteEmptySlot(m1, user_cnt) ELSE m1
             cnt == IF u.nextAction = "Delete" THEN user_cnt - 1 ELSE user_cnt
         IN
         IF Settled(m2) /\ current_user + 1 > MAX_USERS - 1 /\ cnt < MAX_USERS - 1
         THEN FillEmptySlots(m2, cnt)
         ELSE SaveUsers(m2, us, cnt + 1, current_user + 1)

\* the register loop of the save: registers 0x00..0xFE go to 0x100..0x1FE
SaveRegisters(mem, ctl) ==
    LET image == {EEPROM_SWITCH_CONFIG_BASE + read_addr : read_addr \in 0..254}
        programmed == {c \in image :
                         Inv8(EthoControllerSingleReadData(ctl, c - EEPROM_SWITCH_CONFIG_BASE)) # 255}
    IN [c \in (DOMAIN mem \ image) \cup programmed |->
           IF c \in image
           THEN Inv8(EthoControllerSingleReadData(ctl, c - EEPROM_SWITCH_CONFIG_BASE))
           ELSE mem[c]]

\* EEPROMPageErase on each of the sixteen pages of the VLAN region
ErasePages(mem) ==
    [c \in DOMAIN mem \ (EEPROM_VLAN_TABLE_BASE..(EEPROM_VLAN_TABLE_BASE + 16 * 256 - 1)) |-> mem[c]]

\* the VLAN loop of the save: each row is selected for reading and the byte
\* computed from its registers is written to the slot of the VLAN id
RECURSIVE SaveVLANs(_, _, _)
SaveVLANs(ctl, mem, vlan_id) ==
    IF vlan_id > LastVlanId THEN [ctl |-> ctl, mem |-> mem]
    ELSE LET selected == IndirectRead(ctl, vlan_id \div 4)
             indirect_reg_values ==
                EthoControllerBulkReadData(selected, INDIRECT_REGISTER_DATA_6, 7,
                                           <<0, 0, 0, 0, 0, 0, 0>>)
         IN SaveVLANs(selected,
                      EEPROMSingleWriteData(mem, EEPROM_VLAN_TABLE_BASE + (vlan_id - 1),
                                            VLANData(indirect_reg_values, vlan_id % 4)),
                      vlan_id + 1)

\* a 32-bit value written as four bytes, most significant first
RECURSIVE WriteWord(_, _, _, _)
WriteWord(mem, address, word, k) ==
    IF Settled(mem) /\ k = 4 THEN mem
    ELSE WriteWord(EEPROMSingleWriteData(mem, address + k, BitAnd(Shr(word, 8 * (3 - k)), 255)),
                   address, word, k + 1)

ReadWord(mem, address) ==
    Shl(EEPROMSingleReadData(mem, address), 24) + Shl(EEPROMSingleReadData(mem, address + 1), 16)
        + Shl(EEPROMSingleReadData(mem, address + 2), 8) + EEPROMSingleReadData(mem, address + 3)

\* COM_SaveSwitchConfiguration: the controller and the EEPROM it leaves
SaveSwitchConfiguration(ctl, mem, us, logFlags, nextSlot) ==
    LET flag_data == EEPROMSingleReadData(mem, FLAG_BASE)
        m1 == SaveRegisters(mem, ctl)
        f1 == BitOr(flag_data, Shl(1, FLAG_CONFIG_SAVED))
        \* "global_control_3 && 0x80": true for every non-zero register value
        vlans == EthoControllerSingleReadData(ctl, GLOBAL_CONTROL_3_HEX) # 0
        v == IF vlans THEN SaveVLANs(ctl, ErasePages(m1), 1) ELSE [ctl |-> ctl, mem |-> m1]
        f2 == IF vlans
              THEN BitOr(f1, Shl(1, FLAG_CONFIG_VLAN_VALID))
              ELSE BitAnd(f1, 255 - Shl(1, FLAG_CONFIG_VLAN_VALID))
        m3 == SaveUsers(v.mem, us, 0, 0)
        f3 == BitOr(f2, Shl(1, FLAG_CONFIG_USERS_VALID))
        m4 == WriteWord(m3, EEPROM_FIRMWARE_LOGFLAGS_1, logFlags, 0)
        m5 == WriteWord(m4, EEPROM_FIRMWARE_NEXTLOG_1, nextSlot, 0)
    IN [ctl |-> v.ctl, mem |-> EEPROMSingleWriteData(m5, FLAG_BASE, f3)]

\* the controller as it leaves reset, and the user table as it is built in
ResetController == [regs |-> [r \in 0..255 |-> 0], table |-> [row \in {} |-> <<>>]]

DefaultUsers ==
    [k \in 0..MAX_USERS |->
        IF k = MAX_USERS
        THEN User_Data("root", "DEFAULT", "ADMIN", "root", Administrator, "None")
        ELSE EmptyUser]

\* the register loop of the restore writes 0x00..0xFE in ascending order; the
\* write of the indirect address register starts an access in between
RestoreRegisters(ctl, mem) ==
    LET saved(r) == EEPROMSingleReadData(mem, EEPROM_SWITCH_CONFIG_BASE + r)
        lower == [ctl EXCEPT !.regs =
                    [r \in 0..255 |-> IF r <= INDIRECT_ACCESS_CONTROL_1 THEN saved(r) ELSE ctl.regs[r]]]
        accessed == IndirectAccess(lower)
    IN [accessed EXCEPT !.regs =
           [r \in 0..255 |->
               IF r > INDIRECT_ACCESS_CONTROL_1 /\ r < 255 THEN saved(r) ELSE accessed.regs[r]]]

\* the VLAN loop of the restore: every slot with bit 7 set is packed into
\* the row of its VLAN id
RECURSIVE RestoreVLANs(_, _, _)
RestoreVLANs(ctl, mem, reg) ==
    IF reg >= LastVlanId THEN ctl
    ELSE LET vlan_data == EEPROMSingleReadData(mem, EEPROM_VLAN_TABLE_BASE + reg)
             indirect_reg_addr == (reg + 1) \div 4
         IN
         IF BitAnd(vlan_data, 128) = 128
         THEN RestoreVLANs(
                 IndirectWrite(
                     PackVLAN(IndirectRead(ctl, indirect_reg_addr), (reg + 1) % 4,
                              Shr(BitAnd(vlan_data, 127), 2)),
                     indirect_reg_addr),
                 mem, reg + 1)
         ELSE RestoreVLANs(ctl, mem, reg + 1)

\* one user record read from its EEPROM slot
RestoreUser(mem, users_cnt) ==
    LET base == EEPROM_USERS_BASE + (users_cnt * 65)
        field(offset) == StringOf(EEPROMBulkReadData(mem, base + offset, EmptyArray, 16).output)
    IN [username |-> field(0), first_name |-> field(32), last_name |-> field(48),
        password |-> field(16), permissions |-> EEPROMSingleReadData(mem, base + 64),
        isMarked |-> FALSE, nextAction |-> "None"]

\* ports and VLAN ids of the VLAN commands explored: the four ids of the
\* last row the save visits
VlanPorts == {48}

VlanIds == (MaxVlanId - 3)..MaxVlanId

\* configuration commands and boots in a run
MaxStoreOps == 5

Controller == [regs |-> ethoRegs, table |-> vlanTable]

\* the entry of a VLAN id as the controller holds it: the bit positions are
\* the ones PackVLAN writes
VLANEntry(table, vlan_id) ==
    LET values == EthoRow(table, vlan_id \div 4)
        v(k) == values[k + 1]
        position == vlan_id % 4
    IN CASE position = 0 ->
              [valid |-> BitOf(v(5), 4),
               membership |-> Shl(BitAnd(v(5), 15), 1) + Shr(v(6), 7)]
         [] position = 1 ->
              [valid |-> BitOf(v(3), 1),
               membership |-> Shl(BitAnd(v(3), 1), 4) + Shr(v(4), 4)]
         [] position = 2 ->
              [valid |-> BitOf(v(2), 6),
               membership |-> BitAnd(Shr(v(2), 1), 31)]
         [] position = 3 ->
              [valid |-> BitOf(v(0), 3),
               membership |-> Shl(BitAnd(v(0), 7), 2) + Shr(v(1), 6)]

\* the valid VLAN ids with their memberships
VLANSet(table) ==
    LET ids == {row * 4 + position : row \in DOMAIN table, position \in 0..3} IN
    {<<vlan_id, VLANEntry(table, vlan_id).membership>> :
        vlan_id \in {id \in ids : VLANEntry(table, id).valid = 1}}

\* registers that hold configuration: all but the indirect access window
ConfigRegisters == (0..255) \ (INDIRECT_ACCESS_CONTROL_0..INDIRECT_REGISTER_DATA_0)

\* the configuration a save captures and a restore is to reproduce; the save
\* stores the VLAN table when global control 3 is not zero
ConfigImage(regs, table, us) ==
    [valid |-> TRUE,
     regs |-> [r \in ConfigRegisters |-> regs[r]],
     vlansStored |-> regs[GLOBAL_CONTROL_3_HEX] # 0,
     vlans |-> VLANSet(table),
     users |-> [k \in 0..(MAX_USERS - 1) |->
                  <<us[k].username, us[k].first_name, us[k].last_name,
                    us[k].password, us[k].permissions>>]]

\* "port vlan enable"
COM_EnableVLANS ==
    /\ storeOps < MaxStoreOps
    /\ storeOps' = storeOps + 1
    /\ LET ctl == OrReg(Controller, GLOBAL_CONTROL_3_HEX, Shl(1, 7)) IN
         /\ ethoRegs' = ctl.regs
         /\ vlanTable' = ctl.table
    /\ storeOut' = [op |-> "enablevlans", addr |-> 0, data |-> <<>>, ret |-> TRUE]
    /\ savedImage' = NoImage
    /\ UNCHANGED <<eeprom, users, LogStatusFlags, NextLogSlot>>
    /\ UNCHANGED storeFrame

\* "port <p> vlan <id>"
COM_SetPortVLAN ==
    /\ storeOps < MaxStoreOps
    /\ storeOps' = storeOps + 1
    /\ \E port_addr \in VlanPorts, vlan_id \in VlanIds :
         LET ctl == SetPortVLAN(Controller, port_addr, vlan_id) IN
         /\ ethoRegs' = ctl.regs
         /\ vlanTable' = ctl.table
         /\ storeOut' = [op |-> "setportvlan", addr |-> vlan_id, data |-> <<port_addr>>,
                         ret |-> TRUE]
    /\ savedImage' = NoImage
    /\ UNCHANGED <<eeprom, users, LogStatusFlags, NextLogSlot>>
    /\ UNCHANGED storeFrame

\* "port <p> vlan table <id>": the entry of a VLAN id is written
COM_SetVLANEntry ==
    /\ storeOps < MaxStoreOps
    /\ storeOps' = storeOps + 1
    /\ \E port_addr \in VlanPorts, vlan_id \in VlanIds :
         LET r == SetVLANEntry(Controller, eeprom, port_addr, vlan_id) IN
         /\ ethoRegs' = r.ctl.regs
         /\ vlanTable' = r.ctl.table
         /\ eeprom' = r.mem
         /\ storeOut' = [op |-> "setvlan", addr |-> vlan_id, data |-> <<r.port_membership>>,
                         ret |-> TRUE]
    /\ savedImage' = NoImage
    /\ UNCHANGED <<users, LogStatusFlags, NextLogSlot>>
    /\ UNCHANGED storeFrame

\* "admin users add": a record is stored in the first free slot
COM_AddUser ==
    /\ storeOps < MaxStoreOps
    /\ storeOps' = storeOps + 1
    /\ users[MAX_USERS - 1].username = ""
    /\ NumUsers < MaxAddedUsers
    /\ \E name \in {"ops"}, perm \in {ModifySystem} :
         /\ \A k \in 0..(MAX_USERS - 1) : users[k].username # name
         /\ users' = [users EXCEPT ![AvailableSlot] =
                         User_Data(name, "First", "Last", "pw", perm, "Add")]
         /\ storeOut' = [op |-> "adduser", addr |-> AvailableSlot, data |-> <<perm>>,
                         ret |-> TRUE]
    /\ savedImage' = NoImage
    /\ UNCHANGED <<eeprom, ethoRegs, vlanTable, LogStatusFlags, NextLogSlot>>
    /\ UNCHANGED storeFrame

\* "config save"
COM_SaveSwitchConfiguration ==
    /\ storeOps < MaxStoreOps
    /\ storeOps' = storeOps + 1
    /\ LET r == SaveSwitchConfiguration(Controller, eeprom, users, LogStatusFlags, NextLogSlot) IN
         /\ ethoRegs' = r.ctl.regs
         /\ vlanTable' = r.ctl.table
         /\ eeprom' = r.mem
    /\ storeOut' = [op |-> "save", addr |-> 0, data |-> <<>>, ret |-> TRUE]
    /\ savedImage' = ConfigImage(ethoRegs, vlanTable, users)
    /\ UNCHANGED <<users, LogStatusFlags, NextLogSlot>>
    /\ UNCHANGED storeFrame

\* what InitializeEEPROM loads for a flags byte: the registers its first loop
\* writes, whether the log words are read, the VLAN ids whose slots its
\* second loop examines and the user slots its third loop fills; the second
\* and third loops and the log words are inside the test of bit 6
BootLoaded(FirmwareSettings) ==
    LET flag(n) == BitOf(FirmwareSettings, n) = 1 IN
    [registers |-> IF flag(FLAG_CONFIG_SAVED) THEN 0..254 ELSE {},
     log |-> flag(FLAG_CONFIG_SAVED),
     vlans |-> IF flag(FLAG_CONFIG_SAVED) /\ flag(FLAG_CONFIG_VLAN_VALID)
               THEN 1..LastVlanId ELSE {},
     users |-> IF flag(FLAG_CONFIG_SAVED) /\ flag(FLAG_CONFIG_USERS_VALID)
               THEN 0..(MAX_USERS - 1) ELSE {}]

\* power is cycled: the controller and the RAM start afresh and
\* InitializeEEPROM restores what the flags byte says was saved
InitializeEEPROM ==
    /\ storeOps < MaxStoreOps
    /\ storeOps' = storeOps + 1
    /\ LET FirmwareSettings == EEPROMSingleReadData(eeprom, EEPROM_FIRMWARE_SETTINGS)
           flag(n) == BitOf(FirmwareSettings, n) = 1
           mem == IF flag(FLAG_EEPROM_REINIT_REQUESTED) THEN ErasedEEPROM ELSE eeprom
           c1 == IF flag(FLAG_CONFIG_SAVED)
                 THEN RestoreRegisters(ResetController, mem)
                 ELSE ResetController
           c2 == IF flag(FLAG_CONFIG_SAVED) /\ flag(FLAG_CONFIG_VLAN_VALID)
                 THEN RestoreVLANs(c1, mem, 0)
                 ELSE c1
           slot == ReadWord(mem, EEPROM_FIRMWARE_NEXTLOG_1)
       IN
       /\ eeprom' = mem
       /\ ethoRegs' = c2.regs
       /\ vlanTable' = c2.table
       /\ LogStatusFlags' = IF flag(FLAG_CONFIG_SAVED)
                            THEN ReadWord(mem, EEPROM_FIRMWARE_LOGFLAGS_1)
                            ELSE 0
       /\ NextLogSlot' = IF flag(FLAG_CONFIG_SAVED) /\ slot >= EEPROM_LOG_BASE
                         THEN slot
                         ELSE EEPROM_LOG_BASE
       /\ users' = IF flag(FLAG_CONFIG_SAVED) /\ flag(FLAG_CONFIG_USERS_VALID)
                   THEN [k \in 0..MAX_USERS |->
                            IF k < MAX_USERS THEN RestoreUser(mem, k) ELSE DefaultUsers[k]]
                   ELSE DefaultUsers
    /\ storeOut' = [op |-> "boot",
                    addr |-> EEPROMSingleReadData(eeprom, EEPROM_FIRMWARE_SETTINGS),
                    data |-> <<>>, ret |-> TRUE,
                    loaded |-> BootLoaded(EEPROMSingleReadData(eeprom, EEPROM_FIRMWARE_SETTINGS))]
    /\ UNCHANGED savedImage
    /\ UNCHANGED storeFrame

StoreNext ==
    \/ COM_EnableVLANS
    \/ COM_SetPortVLAN
    \/ COM_SetVLANEntry
    \/ COM_AddUser
    \/ COM_SaveSwitchConfiguration
    \/ InitializeEEPROM

\* "config erase all": the flags byte is overwritten with the request bit
COM_ReinitializeEEPROM ==
    /\ storeOps < MaxStoreOps
    /\ storeOps' = storeOps + 1
    /\ eeprom' = EEPROMSingleWriteData(eeprom, EEPROM_FIRMWARE_SETTINGS, 128)
    /\ storeOut' = [op |-> "reinit", addr |-> EEPROM_FIRMWARE_SETTINGS, data |-> <<128>>,
                    ret |-> EEPROMSingleWriteOk(eeprom, EEPROM_FIRMWARE_SETTINGS, 128)]
    /\ UNCHANGED <<ethoRegs, vlanTable, savedImage, users, LogStatusFlags, NextLogSlot>>
    /\ UNCHANGED storeFrame

\* "config delete": bits 6 and 5 of the flags byte are cleared
COM_DeleteConfig ==
    /\ storeOps < MaxStoreOps
    /\ storeOps' = storeOps + 1
    /\ LET FirmwareSettings ==
             BitAnd(BitAnd(EEPROMSingleReadData(eeprom, EEPROM_FIRMWARE_SETTINGS),
                           255 - Shl(1, 6)),
                    255 - Shl(1, 5))
       IN
       /\ eeprom' = EEPROMSingleWriteData(eeprom, EEPROM_FIRMWARE_SETTINGS, FirmwareSettings)
       /\ storeOut' = [op |-> "deleteconfig", addr |-> EEPROM_FIRMWARE_SETTINGS,
                       data |-> <<FirmwareSettings>>,
                       ret |-> EEPROMSingleWriteOk(eeprom, EEPROM_FIRMWARE_SETTINGS,
                                                   FirmwareSettings)]
    /\ UNCHANGED <<ethoRegs, vlanTable, savedImage, users, LogStatusFlags, NextLogSlot>>
    /\ UNCHANGED storeFrame

\* registers and bytes of the register writes explored: the last register
WrittenRegisters == {255}

WrittenBytes == {90}

\* "write <reg> <data>" to the switch controller
COM_WriteToEthernetController ==
    /\ storeOps < MaxStoreOps
    /\ storeOps' = storeOps + 1
    /\ \E reg_addr \in WrittenRegisters, reg_data \in WrittenBytes :
         LET ctl == EthoControllerSingleWriteData(Controller, reg_addr, reg_data) IN
         /\ ethoRegs' = ctl.regs
         /\ vlanTable' = ctl.table
         /\ storeOut' = [op |-> "ethowrite", addr |-> reg_addr, data |-> <<reg_data>>,
                         ret |-> EthoControllerSingleReadData(ctl, reg_addr) = reg_data]
    /\ savedImage' = NoImage
    /\ UNCHANGED <<eeprom, users, LogStatusFlags, NextLogSlot>>
    /\ UNCHANGED storeFrame

BootNext ==
    \/ COM_WriteToEthernetController
    \/ COM_EnableVLANS
    \/ COM_SetVLANEntry
    \/ COM_AddUser
    \/ COM_SaveSwitchConfiguration
    \/ COM_ReinitializeEEPROM
    \/ COM_DeleteConfig
    \/ InitializeEEPROM

\* the (valid, membership) pair the save computes for a position of a row
SavedEntry(values, position) ==
    [valid |-> Shr(VLANData(values, position), 7),
     membership |-> Shr(BitAnd(VLANData(values, position), 127), 2)]

\* C7: after the entry of a VLAN id was written into its row, unpacking the
\* row returns the id's membership with the valid bit set, and the entries
\* at the other three positions of the row are as they were.
C7_VLANPackUnpackRoundTrip ==
    [][storeOut'.op = "setvlan"
       => LET vlan_id == storeOut'.addr
              before == EthoRow(vlanTable, vlan_id \div 4)
              after == EthoRow(vlanTable', vlan_id \div 4)
          IN /\ SavedEntry(after, vlan_id % 4)
                   = [valid |-> 1, membership |-> storeOut'.data[1]]
             /\ \A p \in (0..3) \ {vlan_id % 4} :
                   SavedEntry(after, p) = SavedEntry(before, p)]_vars

\* C5: a boot restore that follows a save reproduces what was saved: the
\* controller registers, the set of valid VLAN ids with their memberships
\* (when the save stored the VLAN table) and the user table.
C5_RestoreReproducesSavedState ==
    (storeOut.op = "boot" /\ savedImage.valid)
    => LET restored == ConfigImage(ethoRegs, vlanTable, users) IN
       /\ restored.regs = savedImage.regs
       /\ savedImage.vlansStored => restored.vlans = savedImage.vlans
       /\ restored.users = savedImage.users

(***************************************************************************)
(* The I2C slave: the interrupt handler that collects a command from the   *)
(* master, and the manager task that dispatches it and answers.            *)
(***************************************************************************)
I2CBUFFERSIZE == 50

MAX_PARAMS == 20

MAX_I2C_COMMAND == 80

I2C_QUEUE_SIZE == 5

PORT_CONTROL2_OFFSET_HEX == 2

PORT_CONTROL5_OFFSET_HEX == 12

PORT_CONTROL6_OFFSET_HEX == 13

\* the port offsets in the order of the hardware ports
PORT_OFFSET_HEX_HardwareOrder == <<16, 32, 48, 64>>

\* PORT1_OFFSET_HEX .. PORT4_OFFSET_HEX
PORT_OFFSET_HEX == <<64, 48, 32, 16>>

\* interrupts delivered to the handler in one run
MaxIrqs == 5

\* rows 0x10..0x4F of I2C_Mappings by the low nibble of the code (0x0..0xC):
\* register offset, bit, handler
QuickControl ==
    << <<PORT_CONTROL6_OFFSET_HEX, 3, "I2C_ClearBitEthernetController">>,
       <<PORT_CONTROL6_OFFSET_HEX, 3, "I2C_SetBitEthernetController">>,
       <<PORT_CONTROL5_OFFSET_HEX, 5, "I2C_SetBitEthernetController">>,
       <<PORT_CONTROL5_OFFSET_HEX, 5, "I2C_ClearBitEthernetController">>,
       <<PORT_CONTROL5_OFFSET_HEX, 6, "I2C_ClearBitEthernetController">>,
       <<PORT_CONTROL5_OFFSET_HEX, 6, "I2C_SetBitEthernetController">>,
       <<PORT_CONTROL6_OFFSET_HEX, 2, "I2C_ClearBitEthernetController">>,
       <<PORT_CONTROL6_OFFSET_HEX, 2, "I2C_SetBitEthernetController">>,
       <<PORT_CONTROL6_OFFSET_HEX, 5, "I2C_SetSCEthernetController">>,
       <<PORT_CONTROL2_OFFSET_HEX, 2, "I2C_SetBitEthernetController">>,
       <<PORT_CONTROL2_OFFSET_HEX, 2, "I2C_ClearBitEthernetController">>,
       <<PORT_CONTROL2_OFFSET_HEX, 1, "I2C_SetBitEthernetController">>,
       <<PORT_CONTROL2_OFFSET_HEX, 1, "I2C_ClearBitEthernetController">> >>

I2CCode(command_code, static_pcount, custom_pcount, return_pcount, static_parameters, func) ==
    [command_code |-> command_code, static_pcount |-> static_pcount,
     custom_pcount |-> custom_pcount, return_pcount |-> return_pcount,
     static_parameters |-> static_parameters, func |-> func]

\* the table of eighty commands, indexed by the command code
I2C_Mappings(code) ==
    LET port == code \div 16
        low == code % 16
    IN
    IF code = 0 THEN I2CCode(code, 0, 3, 1, <<>>, "I2C_WriteReadFromEthernetController")
    ELSE IF code = 1 THEN I2CCode(code, 0, 0, 1, <<>>, "I2C_SaveSwitchConfiguration")
    ELSE IF code = 2 THEN I2CCode(code, 0, 0, 255, <<>>, "I2C_DownloadSwitchConfiguration")
    ELSE IF code = 3 THEN I2CCode(code, 0, 0, 1, <<>>, "I2C_ClearSwitchConfiguration")
    ELSE IF code < 16 THEN I2CCode(code, 0, 0, 0, <<>>, "I2CNotImplementedFunction")
    ELSE IF low <= 12
    THEN I2CCode(code, 3, 0, 1,
                 <<PORT_OFFSET_HEX[port], QuickControl[low + 1][1], QuickControl[low + 1][2]>>,
                 QuickControl[low + 1][3])
    ELSE IF low = 13 THEN I2CCode(code, 0, 0, 2, <<>>, "I2CNotImplementedFunction")
    ELSE I2CCode(code, 0, 0, 1, <<>>, "I2CNotImplementedFunction")

\* what a read past the end of the eighty-row table may yield as custom_pcount
BeyondTable == {0, 3}

\* I2C_Mappings[code].custom_pcount as the interrupt handler reads it: the
\* handler indexes the table with any byte the master sent
CustomPCountRead(code) ==
    IF code < MAX_I2C_COMMAND THEN {I2C_Mappings(code).custom_pcount} ELSE BeyondTable

\* memset(&data, 0, sizeof(I2C_Packet))
I2CPacketZero == [I2CRXBuffer |-> [i \in 0..(I2CBUFFERSIZE - 1) |-> 0], I2CRXIndex |-> 0]

\* a mutex is a queue of length one whose item is the token; holder is the
\* task that took it
I2CTokenFree == [count |-> 1, holder |-> "none"]

xSemaphoreTakeFromISR(sem) == IF sem.count > 0 THEN [sem EXCEPT !.count = 0] ELSE sem

\* give from an interrupt: the token is put back whoever holds the mutex; a
\* kernel built with assertions stops instead when a task holds it
xSemaphoreGiveFromISR(sem) ==
    IF sem.holder = "none"
    THEN {[sem |-> [sem EXCEPT !.count = 1], halt |-> "no"]}
    ELSE {[sem |-> [sem EXCEPT !.count = 1], halt |-> "no"], [sem |-> sem, halt |-> "assert"]}

\* one run of the interrupt handler: the outcomes it can have
I2C0SlaveIntHandler(data, queue, sem, int_status, rreq, byte) ==
    LET cleared == I2CPacketZero
        taken == xSemaphoreTakeFromISR(sem)
        stored == [cleared EXCEPT !.I2CRXBuffer[cleared.I2CRXIndex] = byte]
        wrapped == IF stored.I2CRXIndex > I2CBUFFERSIZE
                   THEN [stored EXCEPT !.I2CRXIndex = 0] ELSE stored
        counted == [wrapped EXCEPT !.I2CRXIndex = (@ + 1) % 256]
        Exit(d, q) == {[data |-> d, queue |-> q, sem |-> g.sem, halt |-> g.halt] :
                         g \in xSemaphoreGiveFromISR(taken)}
    IN
    IF rreq /\ int_status = "START" THEN Exit([cleared EXCEPT !.I2CRXIndex = 0], queue)
    ELSE IF rreq /\ int_status = "DATA"
    THEN UNION {IF wrapped.I2CRXIndex >= custom_pcount
                THEN IF Len(queue) < I2C_QUEUE_SIZE
                     THEN Exit(counted, Append(queue, wrapped))
                     ELSE {[data |-> wrapped, queue |-> queue, sem |-> taken,
                            halt |-> "queue full"]}
                ELSE Exit(counted, queue) :
                custom_pcount \in CustomPCountRead(wrapped.I2CRXBuffer[0])}
    ELSE Exit(cleared, queue)

\* bytes the master sends: 0x00 (three parameters), 0x04 (nothing returned),
\* 0x11 (static parameters, one byte returned), 0x1D (return count 2) and
\* 0x50 (no such command)
I2CBytes == {0, 4, 17, 29, 80}

NoTransaction == [open |-> FALSE, dir |-> "none", bytes |-> <<>>, enq |-> <<>>]

\* an interrupt is served; txn is the master's transaction as it stands with
\* this event
I2CInterrupt(int_status, rreq, byte, txn) ==
    /\ i2cHalt = "no"
    /\ i2cIrqs < MaxIrqs
    /\ i2cIrqs' = i2cIrqs + 1
    /\ \E o \in I2C0SlaveIntHandler(i2cData, g_pI2CQueue, g_pI2CSemaphore, int_status, rreq, byte) :
         /\ i2cData' = o.data
         /\ g_pI2CQueue' = o.queue
         /\ g_pI2CSemaphore' = o.sem
         /\ i2cHalt' = o.halt
         /\ i2cTxn' = [txn EXCEPT !.enq = IF Len(o.queue) > Len(g_pI2CQueue)
                                          THEN Append(@, o.queue[Len(o.queue)]) ELSE @]
    /\ UNCHANGED <<i2cPc, i2cTask, i2cWire, ethoRegs, vlanTable, savedImage>>
    /\ UNCHANGED i2cFrame

\* the master puts a START condition on the bus
MasterStart ==
    /\ i2cHalt = "no"
    /\ \E rreq \in BOOLEAN :
         I2CInterrupt("START", rreq, 0, [NoTransaction EXCEPT !.open = TRUE])

\* the master writes a byte to the slave
MasterWriteByte ==
    /\ i2cTxn.open
    /\ i2cTxn.dir # "read"
    /\ \E byte \in I2CBytes :
         I2CInterrupt("DATA", TRUE, byte,
                      [i2cTxn EXCEPT !.dir = "write", !.bytes = Append(@, byte)])

\* the master reads a byte of the response from the slave
MasterReadByte ==
    /\ i2cTxn.open
    /\ i2cTxn.dir # "write"
    /\ I2CInterrupt("DATA", FALSE, 0, [i2cTxn EXCEPT !.dir = "read"])

\* the master puts a STOP condition on the bus
MasterStop ==
    /\ i2cTxn.open
    /\ \E rreq \in BOOLEAN :
         I2CInterrupt("STOP", rreq, 0, [i2cTxn EXCEPT !.open = FALSE])

\* functionParameters as I2CManagerTask gathers it: static parameters, then
\* the bytes of the packet after the command code
FunctionParameters(data) ==
    LET entry == I2C_Mappings(data.I2CRXBuffer[0]) IN
    [k \in 1..MAX_PARAMS |->
        IF k <= entry.static_pcount THEN entry.static_parameters[k]
        ELSE IF k <= entry.static_pcount + entry.custom_pcount
        THEN data.I2CRXBuffer[k - entry.static_pcount]
        ELSE 0]

\* the handlers behind the codes of I2CBytes: the controller they leave and
\* the byte they return.  The handlers of the other codes are not called in
\* this specification; only the byte they return is left open.
I2CFunc(func, params, ctl) ==
    LET reg_addr == params[1]
        address == U8(params[1] + params[2])
        bit == Pow2(params[3]) % 256
        reg_data == EthoControllerSingleReadData(ctl, address)
        cleared == IF BitOf(reg_data, params[3]) = 1 /\ params[3] < 8
                   THEN reg_data - bit ELSE reg_data
        written == EthoControllerSingleWriteData(ctl, address, U8(cleared))
    IN
    IF func = "I2C_WriteReadFromEthernetController"
    THEN IF params[3] # 0
         THEN {[ctl |-> EthoControllerSingleWriteData(ctl, reg_addr, params[2]),
                ret |-> params[2]]}
         ELSE {[ctl |-> ctl, ret |-> EthoControllerSingleReadData(ctl, reg_addr)]}
    ELSE IF func = "I2C_SetBitEthernetController"
    THEN {[ctl |-> EthoControllerSingleWriteData(ctl, address, U8(BitOr(reg_data, bit))),
           ret |-> 1]}
    ELSE IF func = "I2C_ClearBitEthernetController"
    THEN {[ctl |-> written,
           ret |-> IF EthoControllerSingleReadData(written, address) = cleared THEN 1 ELSE 0]}
    ELSE IF func = "I2CNotImplementedFunction"
    THEN {[ctl |-> ctl, ret |-> 0]}
    ELSE {[ctl |-> ctl, ret |-> ret] : ret \in {0, 1}}

\* the receive step without the range and code checks
I2CManagerReceiveUnchecked ==
    /\ i2cHalt = "no"
    /\ i2cPc = "receive"
    /\ g_pI2CQueue # <<>>
    /\ g_pI2CQueue' = Tail(g_pI2CQueue)
    /\ i2cWire' = <<>>
    /\ i2cTask' = [data |-> Head(g_pI2CQueue),
                   functionParameters |-> [k \in 1..MAX_PARAMS |-> 0],
                   returnValue |-> 0]
    /\ i2cPc' = "take"
    /\ UNCHANGED <<i2cData, g_pI2CSemaphore, i2cTxn, i2cHalt, i2cIrqs>>
    /\ UNCHANGED <<ethoRegs, vlanTable, savedImage>>
    /\ UNCHANGED i2cFrame

\* xQueueReceive returns a packet; the parameters are gathered and the code
\* is looked up
I2CManagerReceive ==
    /\ i2cHalt = "no"
    /\ i2cPc = "receive"
    /\ g_pI2CQueue # <<>>
    /\ LET data == Head(g_pI2CQueue)
           code == data.I2CRXBuffer[0]
       IN
       /\ g_pI2CQueue' = Tail(g_pI2CQueue)
       /\ i2cWire' = <<>>
       /\ i2cTask' = [data |-> data,
                      functionParameters |->
                          IF code < MAX_I2C_COMMAND THEN FunctionParameters(data)
                          ELSE [k \in 1..MAX_PARAMS |-> 0],
                      returnValue |-> 0]
       /\ i2cPc' = IF code < MAX_I2C_COMMAND /\ I2C_Mappings(code).command_code = code
                   THEN "take" ELSE "receive"
    /\ UNCHANGED <<i2cData, g_pI2CSemaphore, i2cTxn, i2cHalt, i2cIrqs>>
    /\ UNCHANGED <<ethoRegs, vlanTable, savedImage>>
    /\ UNCHANGED i2cFrame

\* xSemaphoreTake(g_pI2CSemaphore, POLL_SEMAPHORE): no wait, result not used
I2CManagerTake ==
    /\ i2cHalt = "no"
    /\ i2cPc = "take"
    /\ g_pI2CSemaphore' = IF g_pI2CSemaphore.count > 0
                          THEN [count |-> 0, holder |-> "task"] ELSE g_pI2CSemaphore
    /\ i2cPc' = "count"
    /\ UNCHANGED <<i2cData, g_pI2CQueue, i2cTask, i2cWire, i2cTxn, i2cHalt, i2cIrqs>>
    /\ UNCHANGED <<ethoRegs, vlanTable, savedImage>>
    /\ UNCHANGED i2cFrame

\* I2CSlaveDataPut of the entry's return_pcount
I2CManagerSendCount ==
    /\ i2cHalt = "no"
    /\ i2cPc = "count"
    /\ i2cWire' = Append(i2cWire,
                         [ev |-> "put",
                          value |-> <<I2C_Mappings(i2cTask.data.I2CRXBuffer[0]).return_pcount>>])
    /\ i2cPc' = "call"
    /\ UNCHANGED <<i2cData, g_pI2CQueue, g_pI2CSemaphore, i2cTask, i2cTxn, i2cHalt, i2cIrqs>>
    /\ UNCHANGED <<ethoRegs, vlanTable, savedImage>>
    /\ UNCHANGED i2cFrame

\* the handler is called through the function pointer of the entry
I2CManagerCall ==
    /\ i2cHalt = "no"
    /\ i2cPc = "call"
    /\ LET entry == I2C_Mappings(i2cTask.data.I2CRXBuffer[0]) IN
       /\ \E o \in I2CFunc(entry.func, i2cTask.functionParameters, Controller) :
            /\ ethoRegs' = o.ctl.regs
            /\ vlanTable' = o.ctl.table
            /\ i2cTask' = [i2cTask EXCEPT !.returnValue = o.ret]
       /\ i2cWire' = Append(i2cWire, [ev |-> "call", value |-> i2cTask.functionParameters])
       /\ i2cPc' = IF entry.return_pcount = 1 THEN "return" ELSE "give"
    /\ savedImage' = NoImage
    /\ UNCHANGED <<i2cData, g_pI2CQueue, g_pI2CSemaphore, i2cTxn, i2cHalt, i2cIrqs>>
    /\ UNCHANGED i2cFrame

\* I2CSlaveDataPut of the handler's return value
I2CManagerSendReturn ==
    /\ i2cHalt = "no"
    /\ i2cPc = "return"
    /\ i2cWire' = Append(i2cWire, [ev |-> "put", value |-> <<i2cTask.returnValue>>])
    /\ i2cPc' = "give"
    /\ UNCHANGED <<i2cData, g_pI2CQueue, g_pI2CSemaphore, i2cTask, i2cTxn, i2cHalt, i2cIrqs>>
    /\ UNCHANGED <<ethoRegs, vlanTable, savedImage>>
    /\ UNCHANGED i2cFrame

\* xSemaphoreGive: the token is put back unless it is there already
I2CManagerGive ==
    /\ i2cHalt = "no"
    /\ i2cPc = "give"
    /\ g_pI2CSemaphore' = IF g_pI2CSemaphore.count = 0 THEN I2CTokenFree ELSE g_pI2CSemaphore
    /\ i2cPc' = "receive"
    /\ UNCHANGED <<i2cData, g_pI2CQueue, i2cTask, i2cWire, i2cTxn, i2cHalt, i2cIrqs>>
    /\ UNCHANGED <<ethoRegs, vlanTable, savedImage>>
    /\ UNCHANGED i2cFrame

I2CNext ==
    \/ MasterStart
    \/ MasterWriteByte
    \/ MasterReadByte
    \/ MasterStop
    \/ I2CManagerReceive
    \/ I2CManagerTake
    \/ I2CManagerSendCount
    \/ I2CManagerCall
    \/ I2CManagerSendReturn
    \/ I2CManagerGive

\* C9: whenever the master has sent START, a command code and exactly the
\* number of parameter bytes the table gives for that code, the interrupt
\* handler has put exactly one packet on the I2C queue in this transaction,
\* and that packet holds the code in I2CRXBuffer[0] followed by the
\* parameter bytes in the order they were sent.
C9_OnePacketPerTransaction ==
    (/\ i2cHalt = "no"
     /\ i2cTxn.open
     /\ i2cTxn.bytes # <<>>
     /\ i2cTxn.bytes[1] < MAX_I2C_COMMAND
     /\ Len(i2cTxn.bytes) = 1 + I2C_Mappings(i2cTxn.bytes[1]).custom_pcount)
    => /\ Len(i2cTxn.enq) = 1
       /\ \A k \in 1..Len(i2cTxn.bytes) : i2cTxn.enq[1].I2CRXBuffer[k - 1] = i2cTxn.bytes[k]

\* the response the dispatcher owes for the packet it holds
I2CResponse ==
    LET entry == I2C_Mappings(i2cTask.data.I2CRXBuffer[0])
        custom == [k \in 1..entry.custom_pcount |-> i2cTask.data.I2CRXBuffer[k]]
        params == [k \in 1..MAX_PARAMS |->
                     IF k <= Len(entry.static_parameters \o custom)
                     THEN (entry.static_parameters \o custom)[k] ELSE 0]
    IN
    <<[ev |-> "put", value |-> <<entry.return_pcount>>], [ev |-> "call", value |-> params]>>
    \o (IF entry.return_pcount = 1
        THEN <<[ev |-> "put", value |-> <<i2cTask.returnValue>>]>> ELSE <<>>)

\* C10: for every packet taken from the queue whose code matches its table
\* entry, the dispatcher holds the I2C token from the take until the give;
\* in that time it sends the entry's return_pcount first, then calls the
\* handler exactly once with the static parameters followed by the packet's
\* parameter bytes, then sends the handler's return byte if and only if
\* return_pcount is 1; after the give the token is free.
C10_DispatchUnderToken ==
    /\ i2cPc \in {"count", "call", "return", "give"}
       => g_pI2CSemaphore = [count |-> 0, holder |-> "task"]
    /\ i2cPc = "give" => i2cWire = I2CResponse
    /\ (i2cPc \in {"receive", "take"} /\ i2cHalt = "no") => g_pI2CSemaphore = I2CTokenFree

\* C11: when the master has sent the single byte 0x11 and the dispatcher
\* has called the handler for it, the first response byte was 1 and a read
\* of the port-control-6 register of the port at offset 0x40 (register 0x4D)
\* returns bit 3 set.
C11_PortOneOff ==
    (i2cTask.data.I2CRXBuffer[0] = 17 /\ i2cPc \in {"return", "give"})
    => /\ i2cWire[1] = [ev |-> "put", value |-> <<1>>]
       /\ BitOf(EthoControllerSingleReadData(Controller, 64 + 13), 3) = 1

C11_Witness ==
    /\ i2cTask.data.I2CRXBuffer[0] = 17
    /\ i2cPc = "give"
    /\ Len(i2cWire) = 3
    /\ ethoRegs[77] = 8

\* the codes for which the table has an entry with an equal code field
I2CKnownCodes == {code \in 0..(MAX_I2C_COMMAND - 1) : I2C_Mappings(code).command_code = code}

\* C12: a packet taken from the queue whose first byte is not the code of
\* any table entry is dropped: the dispatcher goes back to waiting for the
\* next packet, calls no handler and sends no response byte.
C12_UnknownCodeDropped ==
    i2cTask.data.I2CRXBuffer[0] \notin I2CKnownCodes
    => (i2cPc = "receive" /\ i2cWire = <<>>)

C12_Witness ==
    /\ i2cTask.data.I2CRXBuffer[0] = 80
    /\ i2cPc = "receive"
    /\ i2cWire = <<>>
    /\ g_pI2CQueue = <<>>
    /\ i2cTxn.bytes = <<80>>

(***************************************************************************)
(* The port monitor: the link-change interrupts of the controller and the  *)
(* flush of its dynamic MAC table; the console attach interrupt.           *)
(***************************************************************************)
INTERRUPT_STATUS_REGISTER == 124

GLOBAL_CONTROL_0_HEX == 2

\* link changes the hardware raises in one run
MaxLinkChanges == 2

\* edges of the DTR line in one run
MaxDtrEdges == 2

\* the blocks of PortMonitorTask in the order they are written: interrupt
\* bit, port status register, port learning register, name in the notice
MonitoredPorts ==
    << [bit |-> 16, status |-> 94, learning |-> 82, name |-> "Expansion port"],
       [bit |-> 8, status |-> 78, learning |-> 66, name |-> "Port 0"],
       [bit |-> 4, status |-> 62, learning |-> 50, name |-> "Port 1"],
       [bit |-> 2, status |-> 46, learning |-> 34, name |-> "Port 2"],
       [bit |-> 1, status |-> 30, learning |-> 18, name |-> "Port 3"] >>

\* a register write as the controller takes it: a one written to a bit of the
\* interrupt status register clears that bit
ControllerWrite(ctl, address, data) ==
    IF address = INTERRUPT_STATUS_REGISTER
    THEN [ctl EXCEPT !.regs[address] = BitAnd(@, Inv8(data))]
    ELSE EthoControllerSingleWriteData(ctl, address, data)

\* an operation as an observer of the task sees it
Op(kind, reg, value) == [kind |-> kind, reg |-> reg, value |-> value]

\* the operations of a pass; a poll that repeats the last one is not listed again
Logged(ops, op) == IF ops # <<>> /\ ops[Len(ops)] = op THEN ops ELSE Append(ops, op)

\* the first block at or after `from` whose test (flags & bit) succeeds, or 0
NextBlock(flags, from) ==
    LET hits == {k \in from..Len(MonitoredPorts) : BitAnd(flags, MonitoredPorts[k].bit) # 0} IN
    IF hits = {} THEN 0 ELSE CHOOSE k \in hits : \A j \in hits : k <= j

\* where the task goes after the tests that follow block `from - 1`
AfterTests(flags, from) ==
    IF NextBlock(flags, from) = 0
    THEN [step |-> "scan", port |-> 0]
    ELSE [step |-> "clear", port |-> NextBlock(flags, from)]

PortMonitorStep(pc, ctl, flags, settings, ops) ==
    /\ dtrHandler # "hung"
    /\ pmPc' = pc
    /\ ethoRegs' = ctl.regs
    /\ vlanTable' = ctl.table
    /\ pmFlags' = flags
    /\ eth0_reg_settings' = settings
    /\ pmOps' = ops
    /\ UNCHANGED <<Authenticated, macStale, linkChanges, ConsoleMode, g_pLEDQueue, dtrHandler, dtrEdges>>
    /\ UNCHANGED pmFrame

\* top of the loop: while a user is authenticated the interrupt status
\* register is read and the five tests are made
PmScan ==
    /\ pmPc.step = "scan"
    /\ Authenticated
    /\ LET flags == EthoControllerSingleReadData(Controller, INTERRUPT_STATUS_REGISTER) IN
       PortMonitorStep(AfterTests(flags, 1), Controller, flags, 0,
                       <<Op("read", INTERRUPT_STATUS_REGISTER, flags)>>)

\* flags = bit; the bit is written back to the interrupt status register
PmClear ==
    /\ pmPc.step = "clear"
    /\ LET bit == MonitoredPorts[pmPc.port].bit IN
       PortMonitorStep([pmPc EXCEPT !.step = "status"],
                       ControllerWrite(Controller, INTERRUPT_STATUS_REGISTER, bit),
                       bit, eth0_reg_settings,
                       Logged(pmOps, Op("write", INTERRUPT_STATUS_REGISTER, bit)))

\* the port status register is read and the notice is printed
PmStatus ==
    /\ pmPc.step = "status"
    /\ LET reg == MonitoredPorts[pmPc.port].status
           value == EthoControllerSingleReadData(Controller, reg)
       IN
       PortMonitorStep([pmPc EXCEPT !.step = "learnOffRead"], Controller, pmFlags, value,
                       Logged(Logged(pmOps, Op("read", reg, value)),
                              Op(IF BitOf(value, 5) = 1 THEN "connected" ELSE "disconnected",
                                 reg, pmPc.port)))

\* learning is disabled on the port: read, |= 1
PmLearnOffRead ==
    /\ pmPc.step = "learnOffRead"
    /\ LET reg == MonitoredPorts[pmPc.port].learning
           value == EthoControllerSingleReadData(Controller, reg)
       IN
       PortMonitorStep([pmPc EXCEPT !.step = "learnOffWrite"], Controller, pmFlags,
                       BitOr(value, 1), Logged(pmOps, Op("read", reg, value)))

PmLearnOffWrite ==
    /\ pmPc.step = "learnOffWrite"
    /\ LET reg == MonitoredPorts[pmPc.port].learning IN
       PortMonitorStep([pmPc EXCEPT !.step = "flushRead"],
                       ControllerWrite(Controller, reg, eth0_reg_settings),
                       pmFlags, eth0_reg_settings,
                       Logged(pmOps, Op("write", reg, eth0_reg_settings)))

\* the flush of the dynamic MAC table is started: read, |= 1 << 5
PmFlushRead ==
    /\ pmPc.step = "flushRead"
    /\ LET value == EthoControllerSingleReadData(Controller, GLOBAL_CONTROL_0_HEX) IN
       PortMonitorStep([pmPc EXCEPT !.step = "flushWrite"], Controller, pmFlags,
                       BitOr(value, 32), Logged(pmOps, Op("read", GLOBAL_CONTROL_0_HEX, value)))

\* the flush is not started
PmFlushWriteSkipped ==
    /\ pmPc.step = "flushWrite"
    /\ PortMonitorStep([pmPc EXCEPT !.step = "poll"], Controller, pmFlags, eth0_reg_settings,
                       Logged(pmOps, Op("write", GLOBAL_CONTROL_0_HEX, eth0_reg_settings)))

PmFlushWrite ==
    /\ pmPc.step = "flushWrite"
    /\ PortMonitorStep([pmPc EXCEPT !.step = "poll"],
                       ControllerWrite(Controller, GLOBAL_CONTROL_0_HEX, eth0_reg_settings),
                       pmFlags, eth0_reg_settings,
                       Logged(pmOps, Op("write", GLOBAL_CONTROL_0_HEX, eth0_reg_settings)))

\* a poll that does not wait for the bit
PmPollOnce ==
    /\ pmPc.step = "poll"
    /\ LET value == EthoControllerSingleReadData(Controller, GLOBAL_CONTROL_0_HEX) IN
       PortMonitorStep([pmPc EXCEPT !.step = "learnOnRead"],
                       Controller, pmFlags, eth0_reg_settings,
                       Logged(pmOps, Op("poll", GLOBAL_CONTROL_0_HEX, BitOf(value, 5))))

\* the flush bit is polled; the task sleeps and polls again while it is set
PmPoll ==
    /\ pmPc.step = "poll"
    /\ LET value == EthoControllerSingleReadData(Controller, GLOBAL_CONTROL_0_HEX) IN
       PortMonitorStep([pmPc EXCEPT !.step = IF BitOf(value, 5) = 1 THEN "poll"
                                             ELSE "learnOnRead"],
                       Controller, pmFlags, eth0_reg_settings,
                       Logged(pmOps, Op("poll", GLOBAL_CONTROL_0_HEX, BitOf(value, 5))))

\* learning is enabled again: read, &= ~1
PmLearnOnRead ==
    /\ pmPc.step = "learnOnRead"
    /\ LET reg == MonitoredPorts[pmPc.port].learning
           value == EthoControllerSingleReadData(Controller, reg)
       IN
       PortMonitorStep([pmPc EXCEPT !.step = "learnOnWrite"], Controller, pmFlags,
                       BitAnd(value, 254), Logged(pmOps, Op("read", reg, value)))

\* the last write of a block; the tests of the blocks below follow
PmLearnOnWrite ==
    /\ pmPc.step = "learnOnWrite"
    /\ LET reg == MonitoredPorts[pmPc.port].learning IN
       PortMonitorStep(AfterTests(pmFlags, pmPc.port + 1),
                       ControllerWrite(Controller, reg, eth0_reg_settings),
                       pmFlags, eth0_reg_settings,
                       Logged(pmOps, Op("write", reg, eth0_reg_settings)))

PortMonitorTask ==
    \/ PmScan
    \/ PmClear
    \/ PmStatus
    \/ PmLearnOffRead
    \/ PmLearnOffWrite
    \/ PmFlushRead
    \/ PmFlushWrite
    \/ PmPoll
    \/ PmLearnOnRead
    \/ PmLearnOnWrite

\* the controller sees the link of a port go up or down: the link bit of the
\* port status register changes and the interrupt bit of the port is set;
\* the addresses learned on the port are stale from now on
LinkChange ==
    /\ linkChanges < MaxLinkChanges
    /\ linkChanges' = linkChanges + 1
    /\ \E k \in 1..Len(MonitoredPorts) :
         LET port == MonitoredPorts[k]
             status == ethoRegs[port.status]
         IN
         /\ ethoRegs' = [ethoRegs EXCEPT
                ![port.status] = IF BitOf(status, 5) = 1 THEN status - 32 ELSE status + 32,
                ![INTERRUPT_STATUS_REGISTER] = BitOr(@, port.bit)]
         /\ macStale' = macStale \cup {k}
    /\ UNCHANGED <<Authenticated, vlanTable, pmPc, pmFlags, eth0_reg_settings, pmOps>>
    /\ UNCHANGED <<ConsoleMode, g_pLEDQueue, dtrHandler, dtrEdges>>
    /\ UNCHANGED pmFrame

\* the controller finishes a flush: no learned address is left and the flush
\* bit clears itself
FlushDone ==
    /\ BitOf(ethoRegs[GLOBAL_CONTROL_0_HEX], 5) = 1
    /\ ethoRegs' = [ethoRegs EXCEPT ![GLOBAL_CONTROL_0_HEX] = @ - 32]
    /\ macStale' = {}
    /\ UNCHANGED <<Authenticated, vlanTable, pmPc, pmFlags, eth0_reg_settings, pmOps, linkChanges>>
    /\ UNCHANGED <<ConsoleMode, g_pLEDQueue, dtrHandler, dtrEdges>>
    /\ UNCHANGED pmFrame

LED_QUEUE_SIZE == 20

CONSOLE_OPEN_LED_BLINKRATE == 800

LEDProps(LEDID, interval, ClearLED) == [LEDID |-> LEDID, interval |-> interval, ClearLED |-> ClearLED]

\* what the host sent within the 50 ms after the probe "EEE"
AttachStrings == {"", "EEEWinApp2016"}

\* xQueueSendFromISR(g_pLEDQueue, ...) and the loop that follows a failure
DtrSend(props, handler) ==
    IF Len(g_pLEDQueue) < LED_QUEUE_SIZE
    THEN /\ g_pLEDQueue' = Append(g_pLEDQueue, props)
         /\ dtrHandler' = handler
    ELSE /\ g_pLEDQueue' = g_pLEDQueue
         /\ dtrHandler' = "hung"

\* falling edge of DTR: a host has opened the console port
DTSTriggered ==
    /\ dtrHandler = "DTSTriggered"
    /\ dtrEdges < MaxDtrEdges
    /\ dtrEdges' = dtrEdges + 1
    /\ \E AuthString \in AttachStrings :
         /\ ConsoleMode' = (AuthString # "EEEWinApp2016")
         /\ Authenticated' = IF AuthString # "EEEWinApp2016" THEN FALSE ELSE Authenticated
    /\ DtrSend(LEDProps(0, CONSOLE_OPEN_LED_BLINKRATE, FALSE), "DTSOFF")
    /\ UNCHANGED <<ethoRegs, vlanTable, pmPc, pmFlags, eth0_reg_settings, pmOps, macStale, linkChanges>>
    /\ UNCHANGED pmFrame

\* rising edge of DTR: the host has closed the console port
DTSOFF ==
    /\ dtrHandler = "DTSOFF"
    /\ dtrEdges < MaxDtrEdges
    /\ dtrEdges' = dtrEdges + 1
    /\ DtrSend(LEDProps(0, CONSOLE_OPEN_LED_BLINKRATE, TRUE), "DTSTriggered")
    /\ UNCHANGED <<Authenticated, ConsoleMode>>
    /\ UNCHANGED <<ethoRegs, vlanTable, pmPc, pmFlags, eth0_reg_settings, pmOps, macStale, linkChanges>>
    /\ UNCHANGED pmFrame

PortNext ==
    \/ PortMonitorTask
    \/ LinkChange
    \/ FlushDone
    \/ CliLogin
    \/ DTSTriggered
    \/ DTSOFF

\* a pass has ended: the task is back at the top of its loop
PassDone == pmPc.step = "scan" /\ pmOps # <<>>

IsClear(op) == op.kind = "write" /\ op.reg = INTERRUPT_STATUS_REGISTER

NotPoll(op) == op.kind # "poll"

IsControllerOp(op) == op.kind \in {"read", "write", "poll"}

\* the interrupt bits of a value, expansion port first
BitsIn(value) ==
    LET Set(k) == BitAnd(value, MonitoredPorts[k].bit) # 0
        blocks == SelectSeq([k \in 1..Len(MonitoredPorts) |-> k], Set)
    IN [i \in 1..Len(blocks) |-> MonitoredPorts[blocks[i]].bit]

\* the steps of one block apart from the polls: clear, status read, notice,
\* learning off, flush asserted, learning on
BlockKinds == <<"write", "read", "notice", "read", "write", "read", "write", "read", "write">>

KindOf(op) == IF op.kind \in {"connected", "disconnected"} THEN "notice" ELSE op.kind

\* C13: when a pass of the port monitor has ended, every interrupt bit that
\* was set in the value it read has been cleared in that pass, expansion
\* port first and then the user ports in declared order, and each bit was
\* handled with clear, status read, notice, learning disable, flush assert,
\* flush poll and learning re-enable, in this order.
C13_EveryBitHandledInPass ==
    PassDone
    => LET cleared == SelectSeq(pmOps, IsClear)
           steps == SelectSeq(Tail(pmOps), NotPoll)
       IN
       /\ [i \in 1..Len(cleared) |-> cleared[i].value] = BitsIn(pmOps[1].value)
       /\ Len(steps) = 9 * Len(cleared)
       /\ \A i \in 1..Len(steps) : KindOf(steps[i]) = BlockKinds[((i - 1) % 9) + 1]

\* what follows the clear (and the status read) in a pass for the expansion
\* port: learning off, flush asserted, polls until the bit reads clear,
\* learning on
ExpansionTail(ops) ==
    LET n == Len(ops) IN
    /\ n >= 7
    /\ ops[1].kind = "read" /\ ops[1].reg = 82
    /\ ops[2] = Op("write", 82, BitOr(ops[1].value, 1))
    /\ ops[3].kind = "read" /\ ops[3].reg = GLOBAL_CONTROL_0_HEX
    /\ ops[4] = Op("write", GLOBAL_CONTROL_0_HEX, BitOr(ops[3].value, 32))
    /\ \A i \in 5..(n - 3) : ops[i] = Op("poll", GLOBAL_CONTROL_0_HEX, 1)
    /\ ops[n - 2] = Op("poll", GLOBAL_CONTROL_0_HEX, 0)
    /\ ops[n - 1].kind = "read" /\ ops[n - 1].reg = 82
    /\ ops[n] = Op("write", 82, BitAnd(ops[n - 1].value, 254))

C20_AttachResetsAuthentication ==
    [][(dtrHandler = "DTSTriggered" /\ dtrHandler' # "DTSTriggered") => ~Authenticated']_vars

\* a step of InitializeEEPROM, and the flags byte it reads
BootStep == storeOps' = storeOps + 1 /\ storeOut'.op = "boot"

BootFlag(n) == BitOf(EEPROMSingleReadData(eeprom, EEPROM_FIRMWARE_SETTINGS), n) = 1

\* C16: a boot that finds bit 7 of the flags byte set leaves the EEPROM
\* erased and loads nothing: it writes no controller register, examines no
\* VLAN slot, fills no user slot and reads no log word, whatever the other
\* bits of the flags byte were before the erase.
C16_EraseRequestLoadsNothing ==
    [][(BootStep /\ BootFlag(FLAG_EEPROM_REINIT_REQUESTED))
       => /\ eeprom' = ErasedEEPROM
          /\ storeOut'.loaded = [registers |-> {}, log |-> FALSE, vlans |-> {}, users |-> {}]]_vars

\* C17: at boot the VLAN step runs whenever bit 5 of the flags byte is set
\* and the user step whenever bit 4 is set, whatever bit 6 is: with bit 5
\* every VLAN id whose stored byte has bit 7 set is valid in the controller
\* afterwards, and with bit 4 the user slots 0..14 hold the stored records.
C17_StepsGatedByOwnFlag ==
    [][BootStep
       => /\ BootFlag(FLAG_CONFIG_VLAN_VALID)
               => \A vlan_id \in 1..LastVlanId :
                     BitOf(EEPROMSingleReadData(eeprom', EEPROM_VLAN_TABLE_BASE + (vlan_id - 1)), 7) = 1
                        => /\ vlan_id \in storeOut'.loaded.vlans
                           /\ VLANEntry(vlanTable', vlan_id).valid = 1
          /\ BootFlag(FLAG_CONFIG_USERS_VALID)
               => \A users_cnt \in 0..(MAX_USERS - 1) :
                     /\ users_cnt \in storeOut'.loaded.users
                     /\ users'[users_cnt] = RestoreUser(eeprom', users_cnt)]_vars

\* C18: the saved image covers the registers 0x00..0xFF: after a save the
\* byte at 0x100 + reg is the value register reg had, and after a boot with
\* bit 6 set (and no erase request) register reg holds the byte stored at
\* 0x100 + reg, for every reg in 0..255.
C18_AllRegistersPersisted ==
    [][/\ (storeOps' = storeOps + 1 /\ storeOut'.op = "save")
          => \A reg \in 0..255 :
                EEPROMSingleReadData(eeprom', EEPROM_SWITCH_CONFIG_BASE + reg) = ethoRegs[reg]
       /\ (BootStep /\ BootFlag(FLAG_CONFIG_SAVED) /\ ~BootFlag(FLAG_EEPROM_REINIT_REQUESTED))
          => \A reg \in 0..255 :
                ethoRegs'[reg] = EEPROMSingleReadData(eeprom, EEPROM_SWITCH_CONFIG_BASE + reg)]_vars

\* a step of the login loop, and the slots that match the pair it entered
LoginStep == cliPc = "top" /\ ~Authenticated /\ cliOut'.msg = "Login"

LoginHits ==
    {i \in 0..MAX_USERS :
        /\ users[i].username # ""
        /\ users[i].username = cliOut'.params[1]
        /\ users[i].password = cliOut'.params[2]}

\* C19: a login attempt sets the authentication flag exactly when the pair
\* entered is the (username, password) of a slot of the user table whose
\* name is not empty; it then makes the record of a matching slot the active
\* user and sends UserLoggedIn to the logger queue (the send does not wait:
\* the code is appended when the queue has room). Any other pair leaves the
\* flag, the active user and the queue as they were, and nothing but a login
\* attempt sets the flag.
C19_LoginOnlyOnMatch ==
    [][/\ LoginStep
          => IF LoginHits # {}
             THEN /\ Authenticated'
                  /\ \E i \in LoginHits : ActiveUser' = users[i]
                  /\ Len(g_pLoggerQueue) < LOGGER_QUEUE_SIZE
                        => g_pLoggerQueue' = Append(g_pLoggerQueue, UserLoggedIn)
             ELSE /\ ~Authenticated'
                  /\ ActiveUser' = ActiveUser
                  /\ g_pLoggerQueue' = g_pLoggerQueue
       /\ (~Authenticated /\ Authenticated') => (LoginStep /\ LoginHits # {})]_vars

\* a user added from the console has logged in after a wrong attempt was
\* turned away earlier in the session
C19_Witness ==
    /\ Authenticated
    /\ cliOut = Outcome("Login", NoEntry, <<"ops", "pw">>)
    /\ ActiveUser.username = "ops"
    /\ ActiveUser.password = "pw"
    /\ Len(g_pLoggerQueue) = 3
    /\ g_pLoggerQueue[3] = UserLoggedIn

(***************************************************************************)
(* The handlers that set or clear one bit of a controller register, from   *)
(* the console and over I2C.                                               *)
(***************************************************************************)
BitHandlers ==
    {"COM_SetBitEthernetController", "COM_ClearBitEthernetController",
     "COM_SetSCBitEthernetController", "I2C_SetBitEthernetController",
     "I2C_ClearBitEthernetController", "I2C_SetSCEthernetController"}

SetHandlers == {"COM_SetBitEthernetController", "I2C_SetBitEthernetController"}

ClearHandlers == {"COM_ClearBitEthernetController", "I2C_ClearBitEthernetController"}

SCHandlers == {"COM_SetSCBitEthernetController", "I2C_SetSCEthernetController"}

\* the handlers that return without a loop of reads after their write
UnverifiedHandlers == {"I2C_SetBitEthernetController"}

\* <<base, offset, bit>> of the calls explored: the flush bit of global
\* control 0, a bit of the interrupt status register, a bit of port control 6
BitTargets ==
    {<<0, GLOBAL_CONTROL_0_HEX, 5>>, <<0, INTERRUPT_STATUS_REGISTER, 4>>,
     <<64, PORT_CONTROL6_OFFSET_HEX, 3>>}

NoBitCall ==
    [pc |-> "idle", handler |-> "none", address |-> 0, bit_to_set |-> 0, reg_data |-> 0,
     retry_attempts |-> 0, polls |-> 0, read |-> 0, ret |-> FALSE]

\* the handler up to its write: the register is read, the bit is set or
\* cleared in the value and the value is written; reg_data is the value the
\* loop of reads waits for
BitHandlerStart ==
    /\ bitCall.pc \in {"idle", "done"}
    /\ \E handler \in BitHandlers, target \in BitTargets :
         LET address == target[1] + target[2]
             bit_to_set == target[3]
             read == EthoControllerSingleReadData(Controller, address)
             set == BitOr(read, Shl(1, bit_to_set))
             cleared == BitAnd(read, 255 - Shl(1, bit_to_set))
             written == IF handler \in ClearHandlers THEN cleared ELSE set
             ctl == ControllerWrite(Controller, address, written)
             call == [NoBitCall EXCEPT !.handler = handler, !.address = address,
                                       !.bit_to_set = bit_to_set]
         IN
         /\ ethoRegs' = ctl.regs
         /\ vlanTable' = ctl.table
         /\ bitCall' = IF handler \in UnverifiedHandlers
                       THEN [call EXCEPT !.pc = "done", !.reg_data = written, !.ret = TRUE]
                       ELSE [call EXCEPT !.pc = "poll",
                                         !.reg_data = IF handler \in SCHandlers
                                                      THEN BitAnd(written, 255 - Shl(1, bit_to_set))
                                                      ELSE written]
    /\ UNCHANGED <<halVars, cliVars, logVars, i2cVars, pmVars>>
    /\ UNCHANGED <<eeprom, storeOut, savedImage, storeOps>>

\* one round of "while (EthoControllerSingleRead(...) != reg_data)"
BitHandlerPoll ==
    /\ bitCall.pc = "poll"
    /\ LET read == EthoControllerSingleReadData(Controller, bitCall.address)
           polled == [bitCall EXCEPT !.polls = @ + 1, !.read = read]
       IN
       bitCall' = IF read = bitCall.reg_data
                  THEN [polled EXCEPT !.pc = "done", !.ret = TRUE]
                  ELSE IF bitCall.retry_attempts + 1 > 10
                  THEN [polled EXCEPT !.pc = "done", !.retry_attempts = @ + 1, !.ret = FALSE]
                  ELSE [polled EXCEPT !.retry_attempts = @ + 1]
    /\ UNCHANGED <<halVars, cliVars, logVars, storeVars, i2cVars, pmVars>>

BitNext == BitHandlerStart \/ BitHandlerPoll \/ LinkChange \/ FlushDone

BitInit == bitCall = NoBitCall

\* the bit the handler is to leave in the register: 1 after a set, 0 after a
\* clear and after a self-clearing bit has cleared
ExpectedBit(handler) == IF handler \in SetHandlers THEN 1 ELSE 0

\* C22: a bit handler that has returned success has read the register back
\* at least once after its write and the last value read has the bit as
\* expected; a handler reads the register back at most 11 times (the first
\* read and 10 retries) and returns failure when the retries are used up.
C22_BitHandlersVerify ==
    bitCall.pc = "done"
    => /\ bitCall.ret
            => /\ bitCall.polls >= 1
               /\ BitOf(bitCall.read, bitCall.bit_to_set) = ExpectedBit(bitCall.handler)
       /\ bitCall.polls <= 11
       /\ bitCall.retry_attempts > 10 => ~bitCall.ret

\* the same for the five handlers that have a loop of reads
LoopHandlersVerify ==
    (bitCall.pc = "done" /\ bitCall.handler \notin UnverifiedHandlers)
    => /\ bitCall.ret
            => /\ bitCall.polls >= 1
               /\ BitOf(bitCall.read, bitCall.bit_to_set) = ExpectedBit(bitCall.handler)
       /\ bitCall.polls <= 11
       /\ bitCall.retry_attempts > 10 => ~bitCall.ret

(***************************************************************************)
(* The two queues that interrupt handlers fill: bytes arrive on the I2C    *)
(* bus and the DTR line toggles while the tasks that empty the queues run  *)
(* or wait.                                                                *)
(***************************************************************************)
\* the byte the master keeps sending: a command code without parameters
QueueBytes == {17}

\* a data byte arrives: the whole of I2C0SlaveIntHandler
I2CByteArrives ==
    /\ i2cHalt = "no"
    /\ \E byte \in QueueBytes :
         \E o \in I2C0SlaveIntHandler(i2cData, g_pI2CQueue, g_pI2CSemaphore, "DATA", TRUE, byte) :
           /\ i2cData' = o.data
           /\ g_pI2CQueue' = o.queue
           /\ g_pI2CSemaphore' = o.sem
           /\ i2cHalt' = o.halt
    /\ UNCHANGED <<i2cPc, i2cTask, i2cWire, i2cTxn, i2cIrqs, ethoRegs, vlanTable, savedImage>>
    /\ UNCHANGED i2cFrame

\* the DTR line changes level: the handler registered for the pin runs
DtrEdge ==
    /\ dtrHandler \in {"DTSTriggered", "DTSOFF"}
    /\ IF dtrHandler = "DTSTriggered"
       THEN /\ \E AuthString \in AttachStrings :
                 /\ ConsoleMode' = (AuthString # "EEEWinApp2016")
                 /\ Authenticated' = IF AuthString # "EEEWinApp2016" THEN FALSE
                                      ELSE Authenticated
            /\ DtrSend(LEDProps(0, CONSOLE_OPEN_LED_BLINKRATE, FALSE), "DTSOFF")
       ELSE /\ DtrSend(LEDProps(0, CONSOLE_OPEN_LED_BLINKRATE, TRUE), "DTSTriggered")
            /\ UNCHANGED <<Authenticated, ConsoleMode>>
    /\ UNCHANGED <<ethoRegs, vlanTable, pmPc, pmFlags, eth0_reg_settings, pmOps, macStale,
                   linkChanges, dtrEdges>>
    /\ UNCHANGED pmFrame

\* LEDManagerTask takes the next request from its queue
LEDManagerTask ==
    /\ g_pLEDQueue # <<>>
    /\ g_pLEDQueue' = Tail(g_pLEDQueue)
    /\ UNCHANGED <<Authenticated, ethoRegs, vlanTable, pmPc, pmFlags, eth0_reg_settings, pmOps,
                   macStale, linkChanges, ConsoleMode, dtrHandler, dtrEdges>>
    /\ UNCHANGED pmFrame

QueueNext ==
    \/ I2CByteArrives
    \/ I2CManagerReceive
    \/ I2CManagerTake
    \/ I2CManagerSendCount
    \/ I2CManagerCall
    \/ I2CManagerSendReturn
    \/ I2CManagerGive
    \/ DtrEdge
    \/ LEDManagerTask

\* C23: an interrupt handler never finds its queue full: the I2C handler
\* does not reach its "Queue full" loop and neither DTR handler reaches the
\* loop that follows a failed send to the LED queue.
C23_QueueFullUnreachable ==
    /\ i2cHalt # "queue full"
    /\ dtrHandler # "hung"

(***************************************************************************)
(* The user database: users are added, marked in the delete menu, saved    *)
(* and restored.                                                           *)
(***************************************************************************)

\* user names typed at the prompt of "admin users add"
UserNames == {"ops", "adm", "root"}

\* users added in a run of the user database
MaxDbUsers == 2

\* slots the confirmation loop of the delete menu visits
MenuSlotsWithRoot == 0..MAX_USERS

MenuSlots == 0..(MAX_USERS - 1)

\* "admin users add" with the names a console user may type: a name equal to
\* the name of one of the slots 0..14 is asked for again
UsersAddUser ==
    /\ users[MAX_USERS - 1].username = ""
    /\ NumUsers < MaxDbUsers
    /\ \E name \in UserNames, perm \in {ModifySystem} :
         /\ \A current_user \in 0..(MAX_USERS - 1) : users[current_user].username # name
         /\ users' = [users EXCEPT ![AvailableSlot] =
                         User_Data(name, "First", "Last", "pw", perm, "Add")]
         /\ storeOut' = [op |-> "adduser", addr |-> AvailableSlot, data |-> <<perm>>,
                         ret |-> TRUE]
    /\ savedImage' = NoImage
    /\ UNCHANGED <<eeprom, ethoRegs, vlanTable, storeOps, LogStatusFlags, NextLogSlot>>
    /\ UNCHANGED storeFrame

\* "admin users delete": the listed items are checked and unchecked with the
\* cursor, then the menu is confirmed with C or left with E
COM_DeleteUsersMenu ==
    /\ users[0].username # ""
    /\ LET total_items == NumUsers IN
       \E toggled \in SUBSET (0..(total_items - 1)), option_entered \in {"C", "E"} :
         LET checked == [i \in 0..MAX_USERS |->
                           IF i \in toggled
                           THEN [users[i] EXCEPT !.isMarked = ~users[i].isMarked]
                           ELSE users[i]]
         IN users' = IF option_entered = "C"
                     THEN [i \in 0..MAX_USERS |->
                             IF i \notin MenuSlots THEN checked[i]
                             ELSE IF checked[i].isMarked
                             THEN [checked[i] EXCEPT !.nextAction = "Delete"]
                             ELSE IF checked[i].username # ""
                             THEN [checked[i] EXCEPT !.nextAction = "Update"]
                             ELSE checked[i]]
                     ELSE checked
    /\ storeOut' = [op |-> "deletemenu", addr |-> 0, data |-> <<>>, ret |-> TRUE]
    /\ savedImage' = NoImage
    /\ UNCHANGED <<eeprom, ethoRegs, vlanTable, storeOps, LogStatusFlags, NextLogSlot>>
    /\ UNCHANGED storeFrame

UsersNext ==
    \/ UsersAddUser
    \/ COM_DeleteUsersMenu
    \/ COM_SaveSwitchConfiguration
    \/ InitializeEEPROM

\* C24: in every state reached by adding users, marking them in the delete
\* menu, saving and booting, slot 15 of the user table holds the built-in
\* root record.
C24_RootSlotKept == users[MAX_USERS] = DefaultUsers[MAX_USERS]

C24_Witness ==
    /\ storeOut.op = "save"
    /\ \E i \in 0..(MAX_USERS - 1) : users[i].nextAction = "Delete"
    /\ \E i \in 0..(MAX_USERS - 1) : users[i].nextAction = "Add"

\* C25: no two slots of the user table, the root slot included, that are not
\* empty hold the same username.
C25_UsernamesUnique ==
    \A i, j \in 0..MAX_USERS :
        (i # j /\ users[i].username # "" /\ users[j].username # "")
            => users[i].username # users[j].username

\* the records of the users that are not marked Delete, in slot order
RECURSIVE KeptUsers(_, _)
KeptUsers(us, i) ==
    IF i >= MAX_USERS THEN <<>>
    ELSE IF us[i].username # "" /\ us[i].nextAction # "Delete"
    THEN <<us[i]>> \o KeptUsers(us, i + 1)
    ELSE KeptUsers(us, i + 1)

\* the 65 bytes of a slot of the user region all read as zero
SlotZeroed(mem, user_cnt) ==
    \A offset \in 0..64 :
        EEPROMSingleReadData(mem, EEPROM_USERS_BASE + (user_cnt * 65) + offset) = 0

\* C26: a save made while some user is marked Delete leaves the records of
\* the users not marked Delete in the lowest slots of the user region, in
\* their order, and every slot behind them zeroed.
C26_SaveCompacts ==
    [][(storeOut'.op = "save" /\ storeOps' = storeOps + 1
          /\ \E i \in 0..(MAX_USERS - 1) : users[i].nextAction = "Delete")
       => LET kept == KeptUsers(users, 0) IN
          \A user_cnt \in 0..(MAX_USERS - 1) :
             IF user_cnt < Len(kept)
             THEN LET r == RestoreUser(eeprom', user_cnt)
                      u == kept[user_cnt + 1]
                  IN /\ r.username = u.username
                     /\ r.password = u.password
                     /\ r.first_name = u.first_name
                     /\ r.last_name = u.last_name
                     /\ r.permissions = u.permissions
             ELSE SlotZeroed(eeprom', user_cnt)]_vars

\* C27: after the entry of a VLAN id was set, the byte of the EEPROM at
\* 0x200 + (vlan_id - 1) has bit 7 set and holds in its bits 6..2 the port
\* membership the controller's table has for the VLAN id.
C27_MirrorByteOfEntry ==
    [][(storeOut'.op = "setvlan" /\ storeOps' = storeOps + 1 /\ storeOut'.ret)
       => LET vlan_id == storeOut'.addr
              mirror == EEPROMSingleReadData(eeprom', EEPROM_VLAN_TABLE_BASE + (vlan_id - 1))
          IN /\ BitOf(mirror, 7) = 1
             /\ Shr(BitAnd(mirror, 127), 2) = VLANEntry(vlanTable', vlan_id).membership]_vars

(***************************************************************************)
(* The console session: the interpreter's loop beside the interrupt of the *)
(* DTR pin.                                                                *)
(***************************************************************************)

\* the test "while (!Authenticated)" is passed: the task goes on to wait for
\* a console line
InterpreterAuthenticated ==
    /\ cliPc = "top"
    /\ Authenticated
    /\ cliPc' = "wait"
    /\ UNCHANGED <<Authenticated, ActiveUser, users, commandwords, cliOut>>
    /\ UNCHANGED nonCliVars

\* console lines typed in a session
SessionLines == {<<"logout">>, <<"config", "save">>, <<"config">>}

\* xQueueReceive(g_pINTERPRETERQueue, ...) returns with a console line, which
\* is split into words, or after its time without one
InterpreterReceive ==
    /\ cliPc = "wait"
    /\ \/ \E line \in SessionLines :
            /\ commandwords' = line
            /\ cliPc' = "walk"
       \/ /\ commandwords' = commandwords
          /\ cliPc' = "top"
    /\ UNCHANGED <<Authenticated, ActiveUser, users, cliOut>>
    /\ UNCHANGED nonCliVars

SessionNext ==
    \/ CliLogin
    \/ InterpreterAuthenticated
    \/ InterpreterReceive
    \/ CliWalk
    \/ CliPrompt
    \/ DTSTriggered
    \/ DTSOFF

\* C29: a command handler is only started while the authentication flag is
\* set: after a logout or an attach on the DTR pin has cleared the flag, no
\* console line is dispatched before the next successful login.
C29_NoDispatchWhenLoggedOut ==
    [][(cliPc = "walk" /\ cliPc' = "prompt" /\ cliOut'.msg = "Executed") => Authenticated]_vars

\* the entries of the command tree a console line selects, from the
\* top-level menu down to the last entry matched
RECURSIVE PathOf(_, _, _, _)
PathOf(Menu, j, line, i) ==
    IF i >= MAX_DEPTH_INHERITANCE \/ j > Len(Menu) THEN <<>>
    ELSE LET e == Menu[j] IN
         IF Matches(e, line, i)
         THEN IF e.isExecutable THEN <<e>>
              ELSE <<e>> \o PathOf(e.childCommand, 1, line, i + 1)
         ELSE IF Word(line, i) = "?" THEN <<>>
         ELSE PathOf(Menu, j + 1, line, i)

\* C30: a command is executed only for a user whose role is at least the
\* required permission of every entry on the path from the top-level menu to
\* the command; no command under "system eeprom" is executed for a user
\* below ModifySystem.
C30_PathPermissions ==
    (cliPc = "prompt" /\ cliOut.msg = "Executed")
    => LET path == PathOf(Command_Categories, 1, commandwords, 0) IN
       /\ \A n \in 1..Len(path) : path[n].permissionsRequired <= ActiveUser.permissions
       /\ (Len(commandwords) >= 2 /\ commandwords[1] = "system" /\ commandwords[2] = "eeprom")
             => ActiveUser.permissions >= ModifySystem

(***************************************************************************)
(* A bit handler beside the port monitor. The SPI mutex of the controller  *)
(* is taken and given inside EthoControllerSingleRead and inside           *)
(* EthoControllerSingleWrite: the read of a handler and its write are two  *)
(* critical sections, and another task may run between them.               *)
(***************************************************************************)
\* <<base, offset, bit>>: the transmit bit of port control 2 of the port at
\* 0x10 ("toggle-tx" and the I2C codes 0x19 and 0x1A); the port monitor
\* toggles bit 0 of the same register
RmwTargets == {<<16, PORT_CONTROL2_OFFSET_HEX, 2>>}

RmwHandlers == SetHandlers \cup ClearHandlers

\* the handlers a line of the console starts: a user is logged in
ConsoleHandlers == {"COM_SetBitEthernetController", "COM_ClearBitEthernetController"}

\* the handler up to its read: reg_data is the value read with the bit set
\* or cleared
BitHandlerRead ==
    /\ bitCall.pc \in {"idle", "done"}
    /\ \E handler \in RmwHandlers, target \in RmwTargets :
         LET address == target[1] + target[2]
             bit_to_set == target[3]
             read == EthoControllerSingleReadData(Controller, address)
             set == BitOr(read, Shl(1, bit_to_set))
             cleared == BitAnd(read, 255 - Shl(1, bit_to_set))
         IN
         /\ handler \in ConsoleHandlers => Authenticated
         /\ bitCall' = [NoBitCall EXCEPT !.pc = "write", !.handler = handler,
                                         !.address = address, !.bit_to_set = bit_to_set,
                                         !.reg_data = IF handler \in ClearHandlers
                                                      THEN cleared ELSE set]
    /\ UNCHANGED <<halVars, cliVars, logVars, storeVars, i2cVars, pmVars>>

\* EthoControllerSingleWrite(..., (reg_addr + offset), reg_data)
BitHandlerWrite ==
    /\ bitCall.pc = "write"
    /\ LET ctl == ControllerWrite(Controller, bitCall.address, bitCall.reg_data) IN
       /\ ethoRegs' = ctl.regs
       /\ vlanTable' = ctl.table
    /\ bitCall' = IF bitCall.handler \in UnverifiedHandlers
                  THEN [bitCall EXCEPT !.pc = "done", !.ret = TRUE]
                  ELSE [bitCall EXCEPT !.pc = "poll"]
    /\ UNCHANGED <<halVars, cliVars, logVars, i2cVars, pmVars>>
    /\ UNCHANGED <<eeprom, storeOut, savedImage, storeOps>>

RmwNext ==
    \/ BitHandlerRead
    \/ BitHandlerWrite
    \/ BitHandlerPoll
    \/ PortMonitorTask
    \/ LinkChange
    \/ FlushDone
    \/ CliLogin

\* the bits of a register value other than bit n
OtherBits(value, n) == BitAnd(value, 255 - Shl(1, n))

\* the port learning registers: the hardware does not change them
LearningRegisters == {MonitoredPorts[k].learning : k \in 1..Len(MonitoredPorts)}

\* C31: a write that ends a read-modify-write of a port control register
\* changes no bit of the register but the one the writer sets or clears: a
\* bit another task changed after the writer's read keeps its new value.
C31_NoLostUpdate ==
    [][/\ (bitCall.pc = "write" /\ bitCall'.pc # "write"
              /\ bitCall.address \in LearningRegisters)
          => OtherBits(ethoRegs'[bitCall.address], bitCall.bit_to_set)
                = OtherBits(ethoRegs[bitCall.address], bitCall.bit_to_set)
       /\ (pmPc.step \in {"learnOffWrite", "learnOnWrite"} /\ pmPc' # pmPc)
          => LET reg == MonitoredPorts[pmPc.port].learning IN
             OtherBits(ethoRegs'[reg], 0) = OtherBits(ethoRegs[reg], 0)]_vars

(***************************************************************************)
(* Termination of the HAL operations: a task that is scheduled goes on     *)
(* with the operation it is in.                                            *)
(***************************************************************************)
\* the steps of the HAL operations of task t
HalOperation(t) ==
    \/ EEPROMSingleWrite(t)
    \/ EEPROMSingleRead(t)
    \/ EEPROMBulkWrite(t)
    \/ EEPROMBulkRead(t)
    \/ EthoControllerSingleRead(t)
    \/ EthoControllerBulkRead(t)
    \/ EthoControllerSingleWrite(t)

\* the tasks no other task keeps from running
TopTasks == {t \in Tasks : \A u \in Tasks : Priority[u] <= Priority[t]}

\* C32: a HAL operation that a task of the highest priority has called
\* returns, with success or with failure.
C32_OperationsReturn ==
    \A t \in TopTasks : Active(t) ~> ~Active(t)

(***************************************************************************)
(* "system eeprom write-reg" on a device whose write cycle may fail.       *)
(***************************************************************************)
\* COM_WriteToEEPOM from its first statement to its return: `verified` is
\* the value EEPROMSingleWrite returned to it, `ret` the value the handler
\* returns
WriteToEEPOMHandler ==
    /\ \E reg_addr \in StoreAddrs, reg_data \in StoreBytes :
         \E after \in WriteCycles(eeprom, reg_addr, reg_data) :
           LET READ_DATA == EEPROMSingleReadDataNotInverted(after, reg_addr)
               reported == xQueueSend(g_pLoggerQueue, EEPROMWriteOP)
               verified == WriteVerified(reg_data, READ_DATA)
           IN
           /\ eeprom' = after
           /\ g_pLoggerQueue' = IF verified THEN reported
                                ELSE xQueueSend(reported, EEPROMIOException)
           /\ storeOut' = [op |-> "write-reg", addr |-> reg_addr, data |-> <<reg_data>>,
                           verified |-> verified, ret |-> TRUE]
    /\ savedImage' = NoImage
    /\ UNCHANGED <<ethoRegs, vlanTable, storeOps, users, NextLogSlot, LogStatusFlags>>
    /\ UNCHANGED <<last_code_issued, logResident, logWrites>>
    /\ UNCHANGED <<halVars, i2cVars, pmVars, bitVars, Authenticated, ActiveUser, cliPc, commandwords, cliOut>>

IoErrNext == WriteToEEPOMHandler \/ LoggerTask

\* a step that is a run of the handler: the logger only takes codes out of
\* its queue
WriteRegStep ==
    /\ storeOut'.op = "write-reg"
    /\ Len(g_pLoggerQueue') >= Len(g_pLoggerQueue)

\* C33: a run of "system eeprom write-reg" whose write fails the read-back
\* verification returns failure and leaves the IO-exception code in the
\* logger queue.
C33_FailedWriteReported ==
    [][(WriteRegStep /\ ~storeOut'.verified)
       => /\ ~storeOut'.ret
          /\ EEPROMIOException \in
                 {g_pLoggerQueue'[k] : k \in (Len(g_pLoggerQueue) + 1)..Len(g_pLoggerQueue')}]_vars

(***************************************************************************)
(* The user database beside the login loop: a logged-in user adds users,   *)
(* marks them in the delete menu and saves; users log out and in.          *)
(***************************************************************************)
\* "logout"
COM_Logout ==
    /\ Authenticated
    /\ cliPc = "top"
    /\ Authenticated' = FALSE
    /\ g_pLoggerQueue' = xQueueSend(g_pLoggerQueue, UserLoggedOut)
    /\ UNCHANGED <<users, ActiveUser, cliPc, commandwords, cliOut>>
    /\ UNCHANGED <<LogStatusFlags, NextLogSlot, last_code_issued, logResident, logWrites>>
    /\ UNCHANGED <<halVars, storeVars, i2cVars, pmVars, bitVars>>

\* logins and logouts in one run: each sends a code to the logger queue
MaxSessionEvents == 3

\* a login attempt of the run
ConsoleLogin ==
    /\ Len(g_pLoggerQueue) < MaxSessionEvents
    /\ CliLogin

\* the handlers of "admin users add", "admin users delete" and "config save"
\* run for the user who is logged in
ConsoleAddUser ==
    /\ Authenticated
    /\ UsersAddUser

ConsoleDeleteUsersMenu ==
    /\ Authenticated
    /\ COM_DeleteUsersMenu

\* saves in one run
MaxSessionSaves == 2

ConsoleSave ==
    /\ Authenticated
    /\ storeOps < MaxSessionSaves
    /\ COM_SaveSwitchConfiguration

DelUserNext ==
    \/ ConsoleLogin
    \/ COM_Logout
    \/ ConsoleAddUser
    \/ ConsoleDeleteUsersMenu
    \/ ConsoleSave

\* C34: when the last change of the stored configuration was a save, the
\* login loop accepts no record that is marked Delete: a user deleted in the
\* menu and saved away is rejected.
C34_DeletedUserRejected ==
    [][(~Authenticated /\ Authenticated' /\ storeOut.op = "save")
       => ActiveUser'.nextAction # "Delete"]_vars

(***************************************************************************)
(* "port <p> vlan-entry <vlan-id>" with the ids a user may type.           *)
(***************************************************************************)
\* ids typed at the prompt: the ends of the range the handler names, the
\* values next to them and an id ports are members of
TypedVlanIds == {0, 1, MaxVlanId, 4095, 4096}

\* COM_SetVLANEntry from the test of its parameter to its return
SetVLANEntryHandler ==
    /\ storeOps < MaxStoreOps
    /\ storeOps' = storeOps + 1
    /\ \E port_addr \in VlanPorts, vlan_id \in TypedVlanIds :
         IF vlan_id > 4095
         THEN /\ storeOut' = [op |-> "vlan-entry", addr |-> vlan_id, data |-> <<>>,
                              ret |-> FALSE]
              /\ UNCHANGED <<ethoRegs, vlanTable, eeprom>>
         ELSE LET r == SetVLANEntry(Controller, eeprom, port_addr, vlan_id) IN
              /\ ethoRegs' = r.ctl.regs
              /\ vlanTable' = r.ctl.table
              /\ eeprom' = r.mem
              /\ storeOut' = [op |-> "vlan-entry", addr |-> vlan_id,
                              data |-> <<r.port_membership>>, ret |-> TRUE]
    /\ savedImage' = NoImage
    /\ UNCHANGED <<users, LogStatusFlags, NextLogSlot>>
    /\ UNCHANGED storeFrame

VlanNext == SetVLANEntryHandler \/ COM_SetPortVLAN

\* the cells of the EEPROM a step changes
CellsChanged(before, after) ==
    {c \in DOMAIN before \cup DOMAIN after : EEPROMCell(before, c) # EEPROMCell(after, c)}

\* C35: a run of the handler that returns success was given a VLAN id in
\* 1..4095, and every EEPROM cell a run changes lies in 0x200..0x11FE,
\* outside the register image at 0x100..0x1FF.
C35_VlanEntryInRange ==
    [][(storeOut'.op = "vlan-entry" /\ storeOps' = storeOps + 1)
       => /\ storeOut'.ret => storeOut'.addr \in 1..4095
          /\ \A c \in CellsChanged(eeprom, eeprom') : c \in 512..4606]_vars

(***************************************************************************)
(* The records of the event log as bytes of the EEPROM.                    *)
(***************************************************************************)
\* values of xTaskGetTickCount() at the time of a record
Ticks == {0, 16909060}

\* records written in one run
MaxLogRecords == 3

\* uint8_t LogTime[4]
LogTime(RTOSTime) ==
    << (RTOSTime \div 16777216) % 256, (RTOSTime \div 65536) % 256,
       (RTOSTime \div 256) % 256, RTOSTime % 256 >>

\* the five EEPROMSingleWrite calls of a record at `slot`
RECURSIVE WriteLogRecord(_, _, _, _)
WriteLogRecord(mem, slot, bytes, eeprom_sector) ==
    IF eeprom_sector >= Len(bytes) THEN mem
    ELSE WriteLogRecord(EEPROMSingleWriteData(mem, slot + eeprom_sector,
                                              bytes[eeprom_sector + 1]),
                        slot, bytes, eeprom_sector + 1)

\* one round of the logger loop that finds a code in the queue, with the
\* bytes it stores
LoggerTaskRecord ==
    /\ g_pLoggerQueue # <<>>
    /\ LET code_issued == Head(g_pLoggerQueue)
           rest == Tail(g_pLoggerQueue)
       IN
       IF BitOf(LogStatusFlags, code_issued) = 1
       THEN \* last_code_issued is read uninitialised the first time
            \E differs \in (IF last_code_issued = {}
                            THEN BOOLEAN
                            ELSE {last_code_issued # {code_issued}}) :
              IF differs
              THEN /\ logWrites < MaxLogRecords
                   /\ \E RTOSTime \in Ticks :
                        eeprom' = WriteLogRecord(eeprom, NextLogSlot,
                                                 LogTime(RTOSTime) \o <<code_issued>>, 0)
                   /\ g_pLoggerQueue' = SendTimes(rest, EEPROMWriteOP, 5)
                   /\ logResident' = logResident \cup {NextLogSlot}
                   /\ logWrites' = logWrites + 1
                   /\ NextLogSlot' = AdvanceLogSlot(NextLogSlot)
                   /\ last_code_issued' = {code_issued}
                   /\ UNCHANGED LogStatusFlags
              ELSE /\ g_pLoggerQueue' = rest
                   /\ UNCHANGED <<LogStatusFlags, NextLogSlot, last_code_issued,
                                  logResident, logWrites, eeprom>>
       ELSE /\ g_pLoggerQueue' = rest
            /\ UNCHANGED <<LogStatusFlags, NextLogSlot, last_code_issued,
                           logResident, logWrites, eeprom>>
    /\ UNCHANGED <<ethoRegs, vlanTable, storeOut, savedImage, storeOps>>
    /\ UNCHANGED <<halVars, i2cVars, pmVars, bitVars>>
    /\ UNCHANGED <<users, Authenticated, ActiveUser, cliPc, commandwords, cliOut>>

LogRecNext == LogItemEEPROM \/ COM_ManageEvents \/ LoggerTaskRecord

\* a step of the logger: a code leaves the queue
LoggerStep ==
    /\ g_pLoggerQueue # <<>>
    /\ g_pLoggerQueue' # g_pLoggerQueue \/ logWrites' # logWrites

\* the five bytes read at `slot`
RecordAt(mem, slot) == [k \in 1..5 |-> EEPROMSingleReadData(mem, slot + k - 1)]

\* C36: the logger writes the code it takes from the queue exactly when the
\* bit of the code in LogStatusFlags is set and the code is not the one of
\* the record before; the record is at the next-log-slot: the tick count,
\* high byte first, and the code.
C36_LoggedIffEnabledAndNew ==
    [][LoggerStep
       => LET code_issued == Head(g_pLoggerQueue) IN
          /\ (NextLogSlot' # NextLogSlot)
               <=> (BitOf(LogStatusFlags, code_issued) = 1
                    /\ last_code_issued # {code_issued})
          /\ (NextLogSlot' # NextLogSlot)
               => \E RTOSTime \in Ticks :
                    RecordAt(eeprom', NextLogSlot) = LogTime(RTOSTime) \o <<code_issued>>]_vars

(***************************************************************************)
(* The console output: the interpreter prints the output of a line between *)
(* its take and its give of the UART mutex; the port monitor prints its    *)
(* notices without a take.                                                 *)
(***************************************************************************)
\* the task that holds g_pUARTSemaphore: InterpreterTask takes it after a
\* line was received and gives it after the prompt; no other code takes it
UartHolder == IF cliPc \in {"walk", "prompt"} THEN "Interpreter" ELSE "free"

\* the port monitor prints "[SYSTEM]: ... connected!" or "disconnected!"
PortMonitorPrints == pmPc.step = "status" /\ pmPc'.step # "status"

UartNext ==
    \/ CliLogin
    \/ InterpreterAuthenticated
    \/ InterpreterReceive
    \/ CliWalk
    \/ CliPrompt
    \/ PortMonitorTask
    \/ LinkChange
    \/ FlushDone

\* C37: the port monitor prints a notice only while no other task holds the
\* UART mutex: a notice never falls between the first character of the
\* output of a console line and the prompt that ends it.
C37_MessagesNotInterleaved ==
    [][PortMonitorPrints => UartHolder = "free"]_vars

(***************************************************************************)
(* The lookups of the I2C code table.                                      *)
(***************************************************************************)
\* the index with which the interrupt handler read I2C_Mappings in a step
\* that stored a byte: the first byte of its packet
IsrTableIndex == i2cData'.I2CRXBuffer[0]

\* C38: the interrupt handler reads I2C_Mappings only at the indices
\* 0x00..0x4F of its entries, whatever byte the master sent.
C38_LookupsInsideTable ==
    [][(i2cIrqs' = i2cIrqs + 1) => IsrTableIndex < MAX_I2C_COMMAND]_vars

(***************************************************************************)
(* The two words of the event log, LogStatusFlags and NextLogSlot: the     *)
(* logger, the console handlers that use them, the save and the boot       *)
(* restore.                                                                *)
(***************************************************************************)
\* last byte of the log region at 0x1600-0x1DBF
EEPROM_LOG_END == EEPROM_LOG_BASE + 1983

\* records written in one run of the two words
MaxSlotRecords == 1

\* erases, raw writes, saves and boots in one run of the two words
MaxSlotOps == 3

\* "admin events delete": the eight pages of the log are erased and the
\* next-log-slot is set back to the base
COM_DeleteEvents ==
    /\ storeOps < MaxSlotOps
    /\ storeOps' = storeOps + 1
    /\ eeprom' = [c \in DOMAIN eeprom \ (EEPROM_LOG_BASE..(EEPROM_LOG_BASE + 8 * 256 - 1)) |->
                    eeprom[c]]
    /\ NextLogSlot' = EEPROM_LOG_BASE
    /\ storeOut' = [op |-> "delete-events", addr |-> EEPROM_LOG_BASE, data |-> <<>>,
                    ret |-> TRUE]
    /\ UNCHANGED <<ethoRegs, vlanTable, savedImage, users, LogStatusFlags>>
    /\ UNCHANGED storeFrame

\* "system eeprom write-reg 0x26 <data>": the low byte of the stored
\* next-log-slot
WriteToNextLogByte ==
    /\ storeOps < MaxSlotOps
    /\ storeOps' = storeOps + 1
    /\ \E reg_data \in {1, 5} :
         /\ eeprom' = EEPROMSingleWriteData(eeprom, EEPROM_FIRMWARE_NEXTLOG_1 + 3, reg_data)
         /\ storeOut' = [op |-> "write", addr |-> EEPROM_FIRMWARE_NEXTLOG_1 + 3,
                         data |-> <<reg_data>>, ret |-> TRUE]
    /\ UNCHANGED <<ethoRegs, vlanTable, savedImage, users, LogStatusFlags, NextLogSlot>>
    /\ UNCHANGED storeFrame

\* a round of the logger in a run of the two words
SlotLoggerTask ==
    /\ logWrites < MaxSlotRecords
    /\ LoggerTask

\* "save-config" and the boot restore in a run of the two words
SlotSave ==
    /\ storeOps < MaxSlotOps
    /\ COM_SaveSwitchConfiguration

SlotBoot ==
    /\ storeOps < MaxSlotOps
    /\ InitializeEEPROM

SlotNext ==
    \/ LogItemEEPROM
    \/ COM_ManageEvents
    \/ SlotLoggerTask
    \/ COM_DeleteEvents
    \/ WriteToNextLogByte
    \/ SlotSave
    \/ SlotBoot

\* C39: the next-log-slot is the address of a record of the log region: it
\* lies in 0x1600..0x1DBF at a multiple of 5 from the base and the five
\* bytes of the record end inside the region.
C39_NextLogSlotInRegion ==
    /\ NextLogSlot \in EEPROM_LOG_BASE..EEPROM_LOG_END
    /\ (NextLogSlot - EEPROM_LOG_BASE) % 5 = 0
    /\ NextLogSlot + 4 <= EEPROM_LOG_END

\* a step that writes one of the two words of the event log
LogWordsWritten == <<LogStatusFlags, NextLogSlot>>' # <<LogStatusFlags, NextLogSlot>>

\* a round of the logger: it takes an event from its queue
LoggerRound == Len(g_pLoggerQueue') < Len(g_pLoggerQueue)

\* a run of the "save-config" handler
SaveRound == storeOps' = storeOps + 1 /\ storeOut'.op = "save"

\* C40: after the boot restore, a step that writes LogStatusFlags or the
\* next-log-slot is a round of the logger task or a run of the save-config
\* handler; no other task or handler writes them.
C40_OnlyLoggerAndSaveWrite ==
    [][(LogWordsWritten /\ ~BootStep) => (LoggerRound \/ SaveRound)]_vars

(***************************************************************************)
(* Initial states and specifications.                                      *)
(***************************************************************************)
HalInit ==
    /\ g_pSPI0Semaphore = "free"
    /\ g_pSPI1Semaphore = "free"
    /\ halStack = [t \in Tasks |-> <<>>]
    /\ halRet = [t \in Tasks |-> TRUE]

\* a factory-fresh EEPROM and the controller as it leaves reset
StoreInit ==
    /\ eeprom = ErasedEEPROM
    /\ ethoRegs = [r \in 0..255 |-> 0]
    /\ vlanTable = [row \in {} |-> <<>>]
    /\ storeOut = NoStoreOut
    /\ savedImage = NoImage
    /\ storeOps = 0

I2CInit ==
    /\ i2cData = I2CPacketZero
    /\ g_pI2CQueue = <<>>
    /\ g_pI2CSemaphore = I2CTokenFree
    /\ i2cPc = "receive"
    /\ i2cTask = [data |-> I2CPacketZero, functionParameters |-> [k \in 1..MAX_PARAMS |-> 0], returnValue |-> 0]
    /\ i2cWire = <<>>
    /\ i2cTxn = NoTransaction
    /\ i2cHalt = "no"
    /\ i2cIrqs = 0

PortInit ==
    /\ pmPc = [step |-> "scan", port |-> 0]
    /\ pmFlags = 0
    /\ eth0_reg_settings = 0
    /\ pmOps = <<>>
    /\ macStale = {}
    /\ linkChanges = 0
    /\ ConsoleMode = TRUE
    /\ g_pLEDQueue = <<>>
    /\ dtrHandler = "DTSTriggered"
    /\ dtrEdges = 0

HalNext ==
    \E t \in Tasks :
        \/ HalCall(t)
        \/ EEPROMSingleWrite(t)
        \/ EEPROMSingleRead(t)
        \/ EEPROMBulkWrite(t)
        \/ EEPROMBulkRead(t)
        \/ EthoControllerSingleRead(t)
        \/ EthoControllerBulkRead(t)
        \/ EthoControllerSingleWrite(t)

SpecHALInit == HalInit /\ CliInit /\ LogInit /\ StoreInit /\ I2CInit /\ PortInit /\ BitInit

SpecHAL == SpecHALInit /\ [][HalNext]_vars

SpecCLIInit == CliInit /\ HalInit /\ LogInit /\ StoreInit /\ I2CInit /\ PortInit /\ BitInit

SpecCLI == SpecCLIInit /\ [][CliNext]_vars

SpecLogInit == LogInit /\ HalInit /\ CliInit /\ StoreInit /\ I2CInit /\ PortInit /\ BitInit

SpecLog == SpecLogInit /\ [][LogNext]_vars

SpecEEPROMInit == StoreInit /\ HalInit /\ CliInit /\ LogInit /\ I2CInit /\ PortInit /\ BitInit

SpecEEPROM == SpecEEPROMInit /\ [][EEPROMNext]_vars

\* calls of EEPROMSingleWrite on a device whose write cycle can fail, and the
\* logger emptying its queue
SpecWriteInit == StoreInit /\ HalInit /\ CliInit /\ LogInit /\ I2CInit /\ PortInit /\ BitInit

SpecWrite == SpecWriteInit /\ [][WriteNext]_vars

SpecStoreInit == StoreInit /\ HalInit /\ CliInit /\ LogInit /\ I2CInit /\ PortInit /\ BitInit

SpecStore == SpecStoreInit /\ [][StoreNext]_vars

\* register writes, VLAN and user commands, saves, erase and delete requests,
\* boots
SpecBootInit == StoreInit /\ HalInit /\ CliInit /\ LogInit /\ I2CInit /\ PortInit /\ BitInit

SpecBoot == SpecBootInit /\ [][BootNext]_vars

SpecI2CInit == I2CInit /\ HalInit /\ CliInit /\ LogInit /\ StoreInit /\ PortInit /\ BitInit

SpecI2C == SpecI2CInit /\ [][I2CNext]_vars

SpecPortInit == PortInit /\ HalInit /\ CliInit /\ LogInit /\ StoreInit /\ I2CInit /\ BitInit

SpecPort == SpecPortInit /\ [][PortNext]_vars

\* the task is scheduled again and again, and the controller finishes a flush
\* it has started
FairSpecPort == SpecPort /\ WF_vars(PortMonitorTask) /\ WF_vars(FlushDone)

\* the bit handlers, link changes and the controller finishing a flush
SpecBitsInit == BitInit /\ PortInit /\ HalInit /\ CliInit /\ LogInit /\ StoreInit /\ I2CInit

SpecBits == SpecBitsInit /\ [][BitNext]_vars

\* bytes and DTR edges arrive at any rate while the I2C manager and the LED
\* manager run at any rate
SpecQueuesInit == I2CInit /\ PortInit /\ BitInit /\ HalInit /\ CliInit /\ LogInit /\ StoreInit

SpecQueues == SpecQueuesInit /\ [][QueueNext]_vars
\* the user database: add, delete menu, save and boot
SpecUsersInit == StoreInit /\ HalInit /\ CliInit /\ LogInit /\ I2CInit /\ PortInit /\ BitInit

SpecUsers == SpecUsersInit /\ [][UsersNext]_vars

\* the console session beside the DTR interrupt
SpecSessionInit == StoreInit /\ HalInit /\ CliInit /\ LogInit /\ I2CInit /\ PortInit /\ BitInit

SpecSession == SpecSessionInit /\ [][SessionNext]_vars

SpecRmwInit == BitInit /\ PortInit /\ HalInit /\ CliInit /\ LogInit /\ StoreInit /\ I2CInit

SpecRmw == SpecRmwInit /\ [][RmwNext]_vars

\* the scheduler runs a ready task of the highest priority; tasks of equal
\* priority are time-sliced
FairSpecHAL == SpecHAL /\ \A t \in Tasks : WF_vars(HalOperation(t))

SpecIoErrInit == StoreInit /\ HalInit /\ CliInit /\ LogInit /\ I2CInit /\ PortInit /\ BitInit

SpecIoErr == SpecIoErrInit /\ [][IoErrNext]_vars

SpecDelUserInit == StoreInit /\ HalInit /\ CliInit /\ LogInit /\ I2CInit /\ PortInit /\ BitInit

SpecDelUser == SpecDelUserInit /\ [][DelUserNext]_vars

SpecVlanInit == StoreInit /\ HalInit /\ CliInit /\ LogInit /\ I2CInit /\ PortInit /\ BitInit

SpecVlan == SpecVlanInit /\ [][VlanNext]_vars

SpecLogRecInit == LogInit /\ HalInit /\ CliInit /\ StoreInit /\ I2CInit /\ PortInit /\ BitInit

SpecLogRec == SpecLogRecInit /\ [][LogRecNext]_vars

SpecUartInit == CliInit /\ PortInit /\ HalInit /\ LogInit /\ StoreInit /\ I2CInit /\ BitInit

SpecUart == SpecUartInit /\ [][UartNext]_vars

SpecSlotInit == LogInit /\ StoreInit /\ HalInit /\ CliInit /\ I2CInit /\ PortInit /\ BitInit

SpecSlot == SpecSlotInit /\ [][SlotNext]_vars

====
